---- MODULE Spec2Model ----
(***************************************************************************)
(* A model of the board-state core of the Pulse chess engine               *)
(* (position.cpp) and of its textual position notation (notation.cpp).     *)
(*                                                                         *)
(* A Position is a record; every method of Position is an operator from a  *)
(* Position (and its arguments) to the Position after the call.  A 64-bit  *)
(* zobrist value is modelled as the set of the independent table entries   *)
(* whose exclusive-or it is, so that exclusive-or is symmetric difference  *)
(* and two values are equal exactly when no entry separates them.          *)
(***************************************************************************)
EXTENDS Integers, Sequences, FiniteSets, TLC

VARIABLES
    position,      \* the Position object under test
    zobristUnset,  \* the value held by the zobrist table slots the constructor never assigns
    moveStack,     \* the caller's stack of moves made and not yet undone
    shadow,        \* history: the Position as it was before each pending makeMove
    last,          \* the last call: its name, its arguments and what it returned
    input          \* the textual description handed to Notation::toPosition

vars == <<position, zobristUnset, moveStack, shadow, last, input>>

(***************************************************************************)
(* Bounds of the model.                                                    *)
(***************************************************************************)
MaxPly == 2
MaxBuildSquares == 2
MaxMaterialSquares == 3

(***************************************************************************)
(* Color, PieceType, Piece (color.h, piecetype.h, piece.h).                *)
(***************************************************************************)
WHITE == "WHITE"
BLACK == "BLACK"
NOCOLOR == "NOCOLOR"
Colors == {WHITE, BLACK}

opposite(color) ==
    IF color = WHITE THEN BLACK ELSE WHITE

PAWN == "PAWN"
KNIGHT == "KNIGHT"
BISHOP == "BISHOP"
ROOK == "ROOK"
QUEEN == "QUEEN"
KING == "KING"
NOPIECETYPE == "NOPIECETYPE"
PieceTypes == {PAWN, KNIGHT, BISHOP, ROOK, QUEEN, KING}

getValue(piecetype) ==
    CASE piecetype = PAWN -> 100
      [] piecetype = KNIGHT -> 325
      [] piecetype = BISHOP -> 325
      [] piecetype = ROOK -> 500
      [] piecetype = QUEEN -> 975
      [] piecetype = KING -> 20000

\* a piece is written as a two-letter name: its color and its type
NOPIECE == "--"
PieceNames ==
    [c \in Colors |->
        IF c = WHITE
        THEN [t \in PieceTypes |->
                CASE t = PAWN -> "WP" [] t = KNIGHT -> "WN" [] t = BISHOP -> "WB"
                  [] t = ROOK -> "WR" [] t = QUEEN -> "WQ" [] t = KING -> "WK"]
        ELSE [t \in PieceTypes |->
                CASE t = PAWN -> "BP" [] t = KNIGHT -> "BN" [] t = BISHOP -> "BB"
                  [] t = ROOK -> "BR" [] t = QUEEN -> "BQ" [] t = KING -> "BK"]]
PieceValueOf(color, piecetype) == PieceNames[color][piecetype]
Pieces == {PieceNames[c][t] : c \in Colors, t \in PieceTypes}
getColor(piece) ==
    IF piece = NOPIECE
    THEN NOCOLOR
    ELSE CHOOSE c \in Colors : \E t \in PieceTypes : PieceNames[c][t] = piece
getType(piece) ==
    IF piece = NOPIECE
    THEN NOPIECETYPE
    ELSE CHOOSE t \in PieceTypes : \E c \in Colors : PieceNames[c][t] = piece
PieceIsValid(piece) == piece \in Pieces

(***************************************************************************)
(* Square (square.h): the 0x88 encoding, 16 slots per rank of which the    *)
(* first 8 are on the board.                                               *)
(***************************************************************************)
VALUES_LENGTH == 128
NOSQUARE == 127

SquareValueOf(file, rank) == rank * 16 + file
getFile(square) == square % 16
getRank(square) == square \div 16

\* (square & 0x88) == 0, on two's complement integers: bits 3 and 7 are clear
SquareIsValid(square) ==
    /\ (square \div 8) % 2 = 0
    /\ (square \div 128) % 2 = 0

Squares == {sq \in 0..(VALUES_LENGTH - 1) : SquareIsValid(sq)}

a1 == 0
c1 == 2
d1 == 3
e1 == 4
f1 == 5
g1 == 6
h1 == 7
a8 == 112
c8 == 114
d8 == 115
e8 == 116
f8 == 117
g8 == 118
h8 == 119

N == 16
E == 1
S == -16
W == -1
NE == N + E
SE == S + E
SW == S + W
NW == N + W

pawnDirections(color) ==
    IF color = WHITE THEN <<N, NE, NW>> ELSE <<S, SE, SW>>
knightDirections ==
    <<N + N + E, N + N + W, N + E + E, N + W + W, S + S + E, S + S + W, S + E + E, S + W + W>>
bishopDirections == <<NE, NW, SE, SW>>
rookDirections == <<N, E, S, W>>
queenDirections == <<N, E, S, W, NE, NW, SE, SW>>
kingDirections == <<N, E, S, W, NE, NW, SE, SW>>

(***************************************************************************)
(* Castling (castling.h): a rights field is a bit mask over four flags,    *)
(* modelled as the set of the flags that are set.                          *)
(***************************************************************************)
WHITE_KINGSIDE == "WHITE_KINGSIDE"
WHITE_QUEENSIDE == "WHITE_QUEENSIDE"
BLACK_KINGSIDE == "BLACK_KINGSIDE"
BLACK_QUEENSIDE == "BLACK_QUEENSIDE"
NOCASTLING == {}
CastlingFlags == {WHITE_KINGSIDE, WHITE_QUEENSIDE, BLACK_KINGSIDE, BLACK_QUEENSIDE}

\* x ^ y on bit masks, and on zobrist values
XOR(x, y) == (x \ y) \cup (y \ x)

(***************************************************************************)
(* Position::Zobrist: one independent entry per (piece, square), per       *)
(* single castling right, per en-passant square, and one for the active    *)
(* color.  The constructor assigns the castlingRights slots of the four    *)
(* single rights and of the two per-color pairs only.                      *)
(***************************************************************************)
zobristBoard(piece, square) == {<<"board", piece, square>>}

zobristCastlingRights(castling) ==
    CASE Cardinality(castling) = 1 -> {<<"castlingRights", f>> : f \in castling}
      [] castling = {WHITE_KINGSIDE, WHITE_QUEENSIDE} ->
            XOR({<<"castlingRights", WHITE_KINGSIDE>>}, {<<"castlingRights", WHITE_QUEENSIDE>>})
      [] castling = {BLACK_KINGSIDE, BLACK_QUEENSIDE} ->
            XOR({<<"castlingRights", BLACK_KINGSIDE>>}, {<<"castlingRights", BLACK_QUEENSIDE>>})
      [] OTHER -> zobristUnset

zobristEnPassantSquare(square) == {<<"enPassantSquare", square>>}

zobristActiveColor == {<<"activeColor">>}

\* what a slot that was never assigned may hold: zero, or anything else
UnsetValues == {{}, {<<"unset">>}}

(***************************************************************************)
(* Position.  The board array, which the constructor fills with NOPIECE,   *)
(* is kept as the function from the slots that hold a piece to that piece: *)
(* a slot outside its domain holds NOPIECE.                                *)
(***************************************************************************)
\* board[square]
boardGet(p, square) ==
    IF square \in DOMAIN p.board THEN p.board[square] ELSE NOPIECE

\* board[square] = piece
boardSet(board, square, piece) ==
    IF piece = NOPIECE
    THEN [sq \in DOMAIN board \ {square} |-> board[sq]]
    ELSE [sq \in DOMAIN board \cup {square} |-> IF sq = square THEN piece ELSE board[sq]]

\* Position::Position(): the state after construction
NewPosition ==
    [board |-> <<>>,
     pieces |-> [c \in Colors |-> [t \in PieceTypes |-> {}]],
     material |-> [c \in Colors |-> 0],
     castlingRights |-> NOCASTLING,
     enPassantSquare |-> NOSQUARE,
     activeColor |-> WHITE,
     halfmoveClock |-> 0,
     zobristKey |-> {},
     halfmoveNumber |-> 2,
     states |-> <<>>]

statesSize(p) == Len(p.states)

setActiveColor(p, activeColor) ==
    IF p.activeColor # activeColor
    THEN [p EXCEPT !.activeColor = activeColor,
                   !.zobristKey = XOR(@, zobristActiveColor)]
    ELSE p

\* a mutation of setCastlingRight: the hash is updated on every call
setCastlingRightAlways(p, castling) ==
    [p EXCEPT !.castlingRights = @ \cup castling,
              !.zobristKey = XOR(@, zobristCastlingRights(castling))]

setCastlingRight(p, castling) ==
    IF p.castlingRights \cap castling = NOCASTLING
    THEN [p EXCEPT !.castlingRights = @ \cup castling,
                   !.zobristKey = XOR(@, zobristCastlingRights(castling))]
    ELSE p

setEnPassantSquare(p, enPassantSquare) ==
    LET k1 == IF p.enPassantSquare # NOSQUARE
              THEN XOR(p.zobristKey, zobristEnPassantSquare(p.enPassantSquare))
              ELSE p.zobristKey
        k2 == IF enPassantSquare # NOSQUARE
              THEN XOR(k1, zobristEnPassantSquare(enPassantSquare))
              ELSE k1
    IN [p EXCEPT !.zobristKey = k2, !.enPassantSquare = enPassantSquare]

setHalfmoveClock(p, halfmoveClock) ==
    [p EXCEPT !.halfmoveClock = halfmoveClock]

getFullmoveNumber(p) == p.halfmoveNumber \div 2

\* a mutation of setFullmoveNumber: the active color is not looked at
setFullmoveNumberEven(p, fullmoveNumber) ==
    [p EXCEPT !.halfmoveNumber = fullmoveNumber * 2]

setFullmoveNumber(p, fullmoveNumber) ==
    [p EXCEPT !.halfmoveNumber =
        fullmoveNumber * 2 + (IF p.activeColor = BLACK THEN 1 ELSE 0)]

\* a mutation of put: the material total is not raised
putKeepsMaterial(p, piece, square) ==
    LET piecetype == getType(piece)
        color == getColor(piece)
    IN [p EXCEPT !.board = boardSet(@, square, piece),
                 !.pieces[color][piecetype] = @ \cup {square},
                 !.zobristKey = XOR(@, zobristBoard(piece, square))]

put(p, piece, square) ==
    LET piecetype == getType(piece)
        color == getColor(piece)
    IN [p EXCEPT !.board = boardSet(@, square, piece),
                 !.pieces[color][piecetype] = @ \cup {square},
                 !.material[color] = @ + getValue(piecetype),
                 !.zobristKey = XOR(@, zobristBoard(piece, square))]

\* a mutation of remove: the hash is left alone
removeKeepsHash(p, square) ==
    LET piece == boardGet(p, square)
        piecetype == getType(piece)
        color == getColor(piece)
    IN [p EXCEPT !.board = boardSet(@, square, NOPIECE),
                 !.pieces[color][piecetype] = @ \ {square},
                 !.material[color] = @ - getValue(piecetype)]

\* a mutation of remove: the square stays in the occupancy set
removeKeepsOccupancy(p, square) ==
    LET piece == boardGet(p, square)
        piecetype == getType(piece)
        color == getColor(piece)
    IN [p EXCEPT !.board = boardSet(@, square, NOPIECE),
                 !.material[color] = @ - getValue(piecetype),
                 !.zobristKey = XOR(@, zobristBoard(piece, square))]

\* the Position after remove(square); the call returns the piece that stood there
remove(p, square) ==
    LET piece == boardGet(p, square)
        piecetype == getType(piece)
        color == getColor(piece)
    IN [p EXCEPT !.board = boardSet(@, square, NOPIECE),
                 !.pieces[color][piecetype] = @ \ {square},
                 !.material[color] = @ - getValue(piecetype),
                 !.zobristKey = XOR(@, zobristBoard(piece, square))]

\* the castling rights tied to a square: a1 white queenside, h1 white kingside,
\* a8 black queenside, h8 black kingside, e1 both white rights, e8 both black
castlingOfSquare(square) ==
    CASE square = a1 -> {WHITE_QUEENSIDE}
      [] square = a8 -> {BLACK_QUEENSIDE}
      [] square = h1 -> {WHITE_KINGSIDE}
      [] square = h8 -> {BLACK_KINGSIDE}
      [] square = e1 -> {WHITE_KINGSIDE, WHITE_QUEENSIDE}
      [] square = e8 -> {BLACK_KINGSIDE, BLACK_QUEENSIDE}
      [] OTHER -> {}

\* a mutation of clearCastling: the rights of the square are flipped, not cleared
clearCastlingToggle(p, square) ==
    IF castlingOfSquare(square) = {}
    THEN p
    ELSE [p EXCEPT !.castlingRights = XOR(@, castlingOfSquare(square)),
                   !.zobristKey = XOR(@, zobristUnset)]

\* a mutation of clearCastling: the king squares clear the kingside right only
clearCastlingKingside(p, square) ==
    IF castlingOfSquare(square) \cap p.castlingRights = {}
    THEN p
    ELSE [p EXCEPT !.castlingRights =
                       @ \ (IF square = e1 THEN {WHITE_KINGSIDE}
                            ELSE IF square = e8 THEN {BLACK_KINGSIDE}
                            ELSE castlingOfSquare(square)),
                   !.zobristKey = XOR(@, zobristUnset)]

clearCastling(p, square) ==
    LET newCastlingRights ==
            CASE square = a1 -> p.castlingRights \ {WHITE_QUEENSIDE}
              [] square = a8 -> p.castlingRights \ {BLACK_QUEENSIDE}
              [] square = h1 -> p.castlingRights \ {WHITE_KINGSIDE}
              [] square = h8 -> p.castlingRights \ {BLACK_KINGSIDE}
              [] square = e1 -> p.castlingRights \ {WHITE_KINGSIDE, WHITE_QUEENSIDE}
              [] square = e8 -> p.castlingRights \ {BLACK_KINGSIDE, BLACK_QUEENSIDE}
              [] OTHER -> p.castlingRights
        \* castlingRights is assigned first; the table index is computed afterwards
        q == [p EXCEPT !.castlingRights = newCastlingRights]
    IN IF square \notin {a1, a8, h1, h8, e1, e8}
       THEN p
       ELSE IF newCastlingRights # p.castlingRights
            THEN [q EXCEPT !.zobristKey =
                     XOR(@, zobristCastlingRights(XOR(newCastlingRights, q.castlingRights)))]
            ELSE p

(***************************************************************************)
(* Move (move.h, movetype.h): an opaque descriptor read through getters.   *)
(***************************************************************************)
NORMAL == "NORMAL"
PAWNDOUBLE == "PAWNDOUBLE"
PAWNPROMOTION == "PAWNPROMOTION"
ENPASSANT == "ENPASSANT"
CASTLING == "CASTLING"

MoveValueOf(type, originSquare, targetSquare, originPiece, targetPiece, promotion) ==
    [type |-> type, originSquare |-> originSquare, targetSquare |-> targetSquare,
     originPiece |-> originPiece, targetPiece |-> targetPiece, promotion |-> promotion]

\* the switch on the king's target square, in makeMove and in undoMove
CastlingTargets == {g1, c1, g8, c8}

rookOriginSquare(targetSquare) ==
    CASE targetSquare = g1 -> h1
      [] targetSquare = c1 -> a1
      [] targetSquare = g8 -> h8
      [] targetSquare = c8 -> a8

\* a mutation of rookTargetSquare: the two sides are swapped
rookTargetSquareSwapped(targetSquare) ==
    CASE targetSquare = g1 -> d1
      [] targetSquare = c1 -> f1
      [] targetSquare = g8 -> d8
      [] targetSquare = c8 -> f8

rookTargetSquare(targetSquare) ==
    CASE targetSquare = g1 -> f1
      [] targetSquare = c1 -> d1
      [] targetSquare = g8 -> f8
      [] targetSquare = c8 -> d8

\* the square the captured piece stands on
captureSquareOf(move) ==
    IF move.type = ENPASSANT
    THEN move.targetSquare + (IF getColor(move.originPiece) = WHITE THEN S ELSE N)
    ELSE move.targetSquare

\* makeMove and undoMove throw on a castling move to any other target square
moveThrows(move) ==
    move.type = CASTLING /\ move.targetSquare \notin CastlingTargets

\* a mutation of moveRook: the switch falls back to the rook of the nearer corner
\* of the king's rank where the source throws
moveRookNearestCorner(p, move) ==
    LET color == getColor(move.originPiece)
        target == IF ~moveThrows(move)
                  THEN move.targetSquare
                  ELSE IF color = WHITE
                       THEN (IF getFile(move.targetSquare) >= 4 THEN g1 ELSE c1)
                       ELSE (IF getFile(move.targetSquare) >= 4 THEN g8 ELSE c8)
        rookPiece == boardGet(p, rookOriginSquare(target))
    IN IF move.type = CASTLING /\ rookPiece # NOPIECE
       THEN put(remove(p, rookOriginSquare(target)), rookPiece, rookTargetSquare(target))
       ELSE p

\* makeMove, "Move rook and update castling rights": what the block has done to
\* the Position when control leaves it, through its end or through the throw of
\* the default case
moveRook(p, move) ==
    IF move.type = CASTLING /\ ~moveThrows(move)
    THEN LET rookPiece == boardGet(p, rookOriginSquare(move.targetSquare))
         IN put(remove(p, rookOriginSquare(move.targetSquare)),
                rookPiece, rookTargetSquare(move.targetSquare))
    ELSE p

\* a mutation of saveState: the snapshot takes a halfmove clock of 0
saveStateNoClock(p) ==
    [p EXCEPT !.states = Append(@, [zobristKey |-> p.zobristKey,
                                    castlingRights |-> p.castlingRights,
                                    enPassantSquare |-> p.enPassantSquare,
                                    halfmoveClock |-> 0])]

\* the start of makeMove, "Save state": push the snapshot
saveState(p) ==
    [p EXCEPT !.states = Append(@, [zobristKey |-> p.zobristKey,
                                    castlingRights |-> p.castlingRights,
                                    enPassantSquare |-> p.enPassantSquare,
                                    halfmoveClock |-> p.halfmoveClock])]

\* a mutation of updateEnPassantSquare: only a double push touches the square
updateEnPassantSquareSticky(p, move) ==
    IF move.type = PAWNDOUBLE
    THEN setEnPassantSquare(p, move.targetSquare
                               + (IF getColor(move.originPiece) = WHITE THEN S ELSE N))
    ELSE p

\* makeMove, "Update enPassantSquare"
updateEnPassantSquare(p, move) ==
    LET key == IF p.enPassantSquare # NOSQUARE
               THEN XOR(p.zobristKey, zobristEnPassantSquare(p.enPassantSquare))
               ELSE p.zobristKey
        square == move.targetSquare + (IF getColor(move.originPiece) = WHITE THEN S ELSE N)
    IN IF move.type = PAWNDOUBLE
       THEN [p EXCEPT !.enPassantSquare = square,
                      !.zobristKey = XOR(key, zobristEnPassantSquare(square))]
       ELSE [p EXCEPT !.enPassantSquare = NOSQUARE, !.zobristKey = key]

\* a mutation of updateHalfmoveClock: a capture by a piece does not reset the clock
updateHalfmoveClockPawnOnly(p, move) ==
    IF getType(move.originPiece) = PAWN
    THEN [p EXCEPT !.halfmoveClock = 0]
    ELSE [p EXCEPT !.halfmoveClock = @ + 1]

\* makeMove, "Update halfmoveClock"
updateHalfmoveClock(p, move) ==
    IF getType(move.originPiece) = PAWN \/ move.targetPiece # NOPIECE
    THEN [p EXCEPT !.halfmoveClock = 0]
    ELSE [p EXCEPT !.halfmoveClock = @ + 1]

makeMove(p, move) ==
    LET type == move.type
        originSquare == move.originSquare
        targetSquare == move.targetSquare
        originPiece == move.originPiece
        originColor == getColor(originPiece)
        targetPiece == move.targetPiece
        \* Save state
        s0 == saveState(p)
        \* Remove target piece and update castling rights
        captureSquare == captureSquareOf(move)
        s1 == IF targetPiece # NOPIECE
              THEN clearCastling(remove(s0, captureSquare), captureSquare)
              ELSE s0
        \* Move piece
        s2 == remove(s1, originSquare)
        s3 == IF type = PAWNPROMOTION
              THEN put(s2, PieceValueOf(originColor, move.promotion), targetSquare)
              ELSE put(s2, originPiece, targetSquare)
        \* Move rook and update castling rights
        s4 == moveRook(s3, move)
        \* Update castling
        s5 == clearCastling(s4, originSquare)
        \* Update enPassantSquare
        s6 == updateEnPassantSquare(s5, move)
        \* Update activeColor
        s7 == [s6 EXCEPT !.activeColor = opposite(@),
                         !.zobristKey = XOR(@, zobristActiveColor)]
        \* Update halfmoveClock
        s8 == updateHalfmoveClock(s7, move)
    IN IF moveThrows(move)
       THEN s4  \* the exception leaves what was done so far
       ELSE [s8 EXCEPT !.halfmoveNumber = @ + 1]

\* a mutation of restoreState: the en-passant square is not restored
restoreStateKeepsEnPassant(p) ==
    LET entry == p.states[Len(p.states)]
    IN [p EXCEPT !.states = SubSeq(@, 1, Len(@) - 1),
                 !.halfmoveClock = entry.halfmoveClock,
                 !.castlingRights = entry.castlingRights,
                 !.zobristKey = entry.zobristKey]

\* the end of undoMove, "Restore state": pop the snapshot and copy it back
restoreState(p) ==
    LET entry == p.states[Len(p.states)]
    IN [p EXCEPT !.states = SubSeq(@, 1, Len(@) - 1),
                 !.halfmoveClock = entry.halfmoveClock,
                 !.enPassantSquare = entry.enPassantSquare,
                 !.castlingRights = entry.castlingRights,
                 !.zobristKey = entry.zobristKey]

undoMove(p, move) ==
    LET type == move.type
        originSquare == move.originSquare
        targetSquare == move.targetSquare
        originPiece == move.originPiece
        targetPiece == move.targetPiece
        \* Update fullMoveNumber, update activeColor
        s1 == [p EXCEPT !.halfmoveNumber = @ - 1, !.activeColor = opposite(@)]
        \* Undo move rook
        s2 == IF type = CASTLING
              THEN LET rookPiece == boardGet(s1, rookTargetSquare(targetSquare))
                   IN put(remove(s1, rookTargetSquare(targetSquare)),
                          rookPiece, rookOriginSquare(targetSquare))
              ELSE s1
        \* Undo move piece
        s3 == put(remove(s2, targetSquare), originPiece, originSquare)
        \* Restore target piece
        s4 == IF targetPiece # NOPIECE
              THEN put(s3, targetPiece, captureSquareOf(move))
              ELSE s3
    IN IF moveThrows(move)
       THEN s1
       ELSE restoreState(s4)

Max(x, y) == IF x >= y THEN x ELSE y

\* a mutation of repetitionIndices: the loop starts at statesSize - 1
repetitionIndicesFromLast(p) ==
    LET j == Max(0, statesSize(p) - p.halfmoveClock)
    IN {i \in j..(statesSize(p) - 1) : (statesSize(p) - i) % 2 = 1}

\* a mutation of repetitionIndices: the loop steps by one ply
repetitionIndicesEveryPly(p) ==
    LET j == Max(0, statesSize(p) - p.halfmoveClock)
    IN {i \in j..(statesSize(p) - 2) : TRUE}

\* the indices the loop of isRepetition visits: statesSize - 2, statesSize - 4, ... >= j
repetitionIndices(p) ==
    LET j == Max(0, statesSize(p) - p.halfmoveClock)
    IN {i \in j..(statesSize(p) - 2) : (statesSize(p) - i) % 2 = 0}

\* states[i], indexed from 0 as in the source
stateAt(p, i) == p.states[i + 1]

isRepetition(p) ==
    \E i \in repetitionIndices(p) : p.zobristKey = stateAt(p, i).zobristKey

\* the snapshot indices isRepetition reads before it returns: the loop goes
\* down from statesSize - 2 and stops at the first match
repetitionReads(p) ==
    {i \in repetitionIndices(p) :
        \A h \in repetitionIndices(p) :
            h > i => p.zobristKey # stateAt(p, h).zobristKey}

\* bitboard::size
size(bitboard) == Cardinality(bitboard)

\* a mutation of hasInsufficientMaterial: the black knights are not counted
hasInsufficientMaterialNoBlackKnights(p) ==
    /\ size(p.pieces[WHITE][PAWN]) = 0
    /\ size(p.pieces[BLACK][PAWN]) = 0
    /\ size(p.pieces[WHITE][ROOK]) = 0
    /\ size(p.pieces[BLACK][ROOK]) = 0
    /\ size(p.pieces[WHITE][QUEEN]) = 0
    /\ size(p.pieces[BLACK][QUEEN]) = 0
    /\ size(p.pieces[WHITE][KNIGHT]) + size(p.pieces[WHITE][BISHOP]) <= 1
    /\ size(p.pieces[BLACK][BISHOP]) <= 1

hasInsufficientMaterial(p) ==
    /\ size(p.pieces[WHITE][PAWN]) = 0
    /\ size(p.pieces[BLACK][PAWN]) = 0
    /\ size(p.pieces[WHITE][ROOK]) = 0
    /\ size(p.pieces[BLACK][ROOK]) = 0
    /\ size(p.pieces[WHITE][QUEEN]) = 0
    /\ size(p.pieces[BLACK][QUEEN]) = 0
    /\ size(p.pieces[WHITE][KNIGHT]) + size(p.pieces[WHITE][BISHOP]) <= 1
    /\ size(p.pieces[BLACK][KNIGHT]) + size(p.pieces[BLACK][BISHOP]) <= 1

(***************************************************************************)
(* The attack oracle.                                                      *)
(***************************************************************************)
\* isAttacked(targetSquare, attackerPiece, directions): a non-sliding piece
isAttackedStep(p, targetSquare, attackerPiece, directions) ==
    \E d \in 1..Len(directions) :
        LET attackerSquare == targetSquare + directions[d]
        IN SquareIsValid(attackerSquare) /\ boardGet(p, attackerSquare) = attackerPiece

\* a mutation of slide: a piece that is not the attacker does not end the walk
RECURSIVE slideThrough(_, _, _, _, _)
slideThrough(p, attackerSquare, direction, attackerPiece, queenPiece) ==
    IF ~SquareIsValid(attackerSquare)
    THEN FALSE
    ELSE LET piece == boardGet(p, attackerSquare)
         IN IF PieceIsValid(piece) /\ (piece = attackerPiece \/ piece = queenPiece)
            THEN TRUE
            ELSE slideThrough(p, attackerSquare + direction, direction, attackerPiece, queenPiece)

\* the while loop of the sliding overload, from attackerSquare on
RECURSIVE slide(_, _, _, _, _)
slide(p, attackerSquare, direction, attackerPiece, queenPiece) ==
    IF ~SquareIsValid(attackerSquare)
    THEN FALSE
    ELSE LET piece == boardGet(p, attackerSquare)
         IN IF PieceIsValid(piece)
            THEN piece = attackerPiece \/ piece = queenPiece
            ELSE slide(p, attackerSquare + direction, direction, attackerPiece, queenPiece)

\* isAttacked(targetSquare, attackerPiece, queenPiece, directions): a sliding piece
isAttackedSlide(p, targetSquare, attackerPiece, queenPiece, directions) ==
    \E d \in 1..Len(directions) :
        slide(p, targetSquare + directions[d], directions[d], attackerPiece, queenPiece)

\* a mutation of pawnAttackIndices: the loop starts at index 0, the push direction
pawnAttackIndicesFromPush(attackerColor) == 1..Len(pawnDirections(attackerColor))

\* the pawn loop of isAttacked: it starts at index 1, after the push direction
pawnAttackIndices(attackerColor) == 2..Len(pawnDirections(attackerColor))

isAttacked(p, targetSquare, attackerColor) ==
    \/ \E i \in pawnAttackIndices(attackerColor) :
          LET attackerSquare == targetSquare - pawnDirections(attackerColor)[i]
          IN /\ SquareIsValid(attackerSquare)
             /\ boardGet(p, attackerSquare) = PieceValueOf(attackerColor, PAWN)
    \/ isAttackedStep(p, targetSquare, PieceValueOf(attackerColor, KNIGHT), knightDirections)
    \/ isAttackedSlide(p, targetSquare, PieceValueOf(attackerColor, BISHOP),
                       PieceValueOf(attackerColor, QUEEN), bishopDirections)
    \/ isAttackedSlide(p, targetSquare, PieceValueOf(attackerColor, ROOK),
                       PieceValueOf(attackerColor, QUEEN), rookDirections)
    \/ isAttackedStep(p, targetSquare, PieceValueOf(attackerColor, KING), kingDirections)

\* bitboard::next: the first member of an occupancy set
next(bitboard) == CHOOSE sq \in bitboard : \A other \in bitboard : sq <= other

\* isCheck(color)
isCheck(p, color) ==
    isAttacked(p, next(p.pieces[color][KING]), opposite(color))

(***************************************************************************)
(* Notation (notation.cpp).  A string is a sequence of one-character       *)
(* strings.                                                                *)
(***************************************************************************)
LowerCase ==
    <<"a", "b", "c", "d", "e", "f", "g", "h", "i", "j", "k", "l", "m",
      "n", "o", "p", "q", "r", "s", "t", "u", "v", "w", "x", "y", "z">>
UpperCase ==
    <<"A", "B", "C", "D", "E", "F", "G", "H", "I", "J", "K", "L", "M",
      "N", "O", "P", "Q", "R", "S", "T", "U", "V", "W", "X", "Y", "Z">>
Digits == <<"0", "1", "2", "3", "4", "5", "6", "7", "8", "9">>

islower(c) == \E i \in 1..Len(LowerCase) : LowerCase[i] = c
isupper(c) == \E i \in 1..Len(UpperCase) : UpperCase[i] = c
isdigit(c) == \E i \in 1..Len(Digits) : Digits[i] = c
tolower(c) ==
    IF isupper(c) THEN LowerCase[CHOOSE i \in 1..Len(UpperCase) : UpperCase[i] = c] ELSE c
toupper(c) ==
    IF islower(c) THEN UpperCase[CHOOSE i \in 1..Len(LowerCase) : LowerCase[i] = c] ELSE c
digitValue(c) == (CHOOSE i \in 1..Len(Digits) : Digits[i] = c) - 1

\* file.h, rank.h
NOFILE == 8
NORANK == 8
FileIsValid(file) == file \in 0..7
RankIsValid(rank) == rank \in 0..7

\* castlingtype.h, castling.h
KINGSIDE == "KINGSIDE"
QUEENSIDE == "QUEENSIDE"
NOCASTLINGTYPE == "NOCASTLINGTYPE"

CastlingValueOf(color, castlingtype) ==
    CASE color = WHITE /\ castlingtype = KINGSIDE -> {WHITE_KINGSIDE}
      [] color = WHITE /\ castlingtype = QUEENSIDE -> {WHITE_QUEENSIDE}
      [] color = BLACK /\ castlingtype = KINGSIDE -> {BLACK_KINGSIDE}
      [] color = BLACK /\ castlingtype = QUEENSIDE -> {BLACK_QUEENSIDE}

toColor(notation) ==
    CASE tolower(notation) = "w" -> WHITE
      [] tolower(notation) = "b" -> BLACK
      [] OTHER -> NOCOLOR

fromColor(color) == IF color = WHITE THEN "w" ELSE "b"

colorOf(notation) == IF islower(notation) THEN BLACK ELSE WHITE

transform(notation, color) ==
    IF color = WHITE THEN toupper(notation) ELSE tolower(notation)

toPieceType(notation) ==
    CASE toupper(notation) = "P" -> PAWN
      [] toupper(notation) = "N" -> KNIGHT
      [] toupper(notation) = "B" -> BISHOP
      [] toupper(notation) = "R" -> ROOK
      [] toupper(notation) = "Q" -> QUEEN
      [] toupper(notation) = "K" -> KING
      [] OTHER -> NOPIECETYPE

fromPieceType(piecetype) ==
    CASE piecetype = PAWN -> "P"
      [] piecetype = KNIGHT -> "N"
      [] piecetype = BISHOP -> "B"
      [] piecetype = ROOK -> "R"
      [] piecetype = QUEEN -> "Q"
      [] piecetype = KING -> "K"

toPiece(notation) ==
    IF toPieceType(notation) # NOPIECETYPE
    THEN PieceValueOf(colorOf(notation), toPieceType(notation))
    ELSE NOPIECE

fromPiece(piece) == transform(fromPieceType(getType(piece)), getColor(piece))

toCastlingType(notation) ==
    CASE toupper(notation) = "K" -> KINGSIDE
      [] toupper(notation) = "Q" -> QUEENSIDE
      [] OTHER -> NOCASTLINGTYPE

toCastling(notation) ==
    IF toCastlingType(notation) # NOCASTLINGTYPE
    THEN CastlingValueOf(colorOf(notation), toCastlingType(notation))
    ELSE NOCASTLING

fromCastling(castling) ==
    CASE castling = WHITE_KINGSIDE -> "K"
      [] castling = WHITE_QUEENSIDE -> "Q"
      [] castling = BLACK_KINGSIDE -> "k"
      [] castling = BLACK_QUEENSIDE -> "q"

toFile(notation) ==
    LET c == tolower(notation)
    IN IF \E i \in 1..8 : LowerCase[i] = c
       THEN (CHOOSE i \in 1..8 : LowerCase[i] = c) - 1
       ELSE NOFILE

fromFile(file) == LowerCase[file + 1]

toRank(notation) ==
    IF isdigit(notation) /\ digitValue(notation) \in 1..8
    THEN digitValue(notation) - 1
    ELSE NORANK

fromRank(rank) == Digits[rank + 2]

\* the tokens of a description: split on ' ', empty tokens dropped
RECURSIVE tokenize(_, _, _)
tokenize(text, i, token) ==
    IF i > Len(text)
    THEN IF token = <<>> THEN <<>> ELSE <<token>>
    ELSE IF text[i] = " "
         THEN (IF token = <<>> THEN <<>> ELSE <<token>>) \o tokenize(text, i + 1, <<>>)
         ELSE tokenize(text, i + 1, Append(token, text[i]))

\* one round of the loop over the characters of the piece placement;
\* st is the loop's state: the position, file, rank, and whether it threw
parsePiecesStep(st, character) ==
    LET piece == toPiece(character)
    IN IF piece # NOPIECE
       THEN IF ~FileIsValid(st.file) \/ ~RankIsValid(st.rank)
            THEN [st EXCEPT !.thrown = TRUE]
            ELSE [st EXCEPT
                    !.position = put(@, piece, SquareValueOf(st.file, st.rank)),
                    !.file = IF @ = 7 THEN NOFILE ELSE @ + 1]
       ELSE IF character = "/"
            THEN IF st.file # NOFILE \/ st.rank = 0
                 THEN [st EXCEPT !.thrown = TRUE]
                 ELSE [st EXCEPT !.file = 0, !.rank = @ - 1]
            ELSE IF ~isdigit(character)
                 THEN [st EXCEPT !.thrown = TRUE]   \* std::stoi throws
                 ELSE LET emptySquares == digitValue(character)
                          file == st.file + emptySquares - 1
                      IN IF emptySquares < 1 \/ 8 < emptySquares
                         THEN [st EXCEPT !.thrown = TRUE]
                         ELSE IF ~FileIsValid(file)
                              THEN [st EXCEPT !.thrown = TRUE]
                              ELSE [st EXCEPT !.file = IF file = 7 THEN NOFILE ELSE file + 1]

RECURSIVE parsePieces(_, _, _)
parsePieces(st, token, i) ==
    IF st.thrown \/ i > Len(token)
    THEN st
    ELSE parsePieces(parsePiecesStep(st, token[i]), token, i + 1)

\* one round of the loop over the characters of the castling field
parseCastlingStep(st, character) ==
    LET castling == toCastling(character)
        castlingFile == toFile(character)
        color == colorOf(character)
        kingFile == getFile(next(st.position.pieces[color][KING]))
    IN IF castling # NOCASTLING
       THEN [st EXCEPT !.position = setCastlingRight(@, castling)]
       ELSE IF castlingFile = NOFILE
            THEN [st EXCEPT !.thrown = TRUE]
            ELSE IF st.position.pieces[color][KING] = {}
                 THEN [st EXCEPT !.thrown = TRUE]
                 ELSE [st EXCEPT !.position = setCastlingRight(@,
                          IF castlingFile > kingFile
                          THEN CastlingValueOf(color, KINGSIDE)
                          ELSE CastlingValueOf(color, QUEENSIDE))]

RECURSIVE parseCastling(_, _, _)
parseCastling(st, token, i) ==
    IF st.thrown \/ i > Len(token)
    THEN st
    ELSE parseCastling(parseCastlingStep(st, token[i]), token, i + 1)

\* std::stoi on a token: an optional sign, then the leading digits;
\* the result is <<converted, value>>
RECURSIVE stoiDigits(_, _, _)
stoiDigits(token, i, acc) ==
    IF i > Len(token) \/ ~isdigit(token[i])
    THEN acc
    ELSE stoiDigits(token, i + 1, acc * 10 + digitValue(token[i]))

stoi(token) ==
    LET signed == Len(token) >= 1 /\ token[1] \in {"-", "+"}
        first == IF signed THEN 2 ELSE 1
        ok == Len(token) >= first /\ isdigit(token[first])
        magnitude == stoiDigits(token, first, 0)
    IN <<ok, IF ok THEN (IF signed /\ token[1] = "-" THEN 0 - magnitude ELSE magnitude) ELSE 0>>

\* Parse active color
parseActiveColor(st, token) ==
    IF st.thrown
    THEN st
    ELSE IF Len(token) # 1
         THEN [st EXCEPT !.thrown = TRUE]
         ELSE IF toColor(token[1]) = NOCOLOR
              THEN [st EXCEPT !.thrown = TRUE]
              ELSE [st EXCEPT !.position = setActiveColor(@, toColor(token[1]))]

\* Parse castling rights
parseCastlingRights(st, token) ==
    IF st.thrown \/ token = <<"-">>
    THEN st
    ELSE parseCastling(st, token, 1)

\* Parse en passant square; the active color is the one just set
parseEnPassantSquare(st, token) ==
    IF st.thrown \/ token = <<"-">>
    THEN st
    ELSE IF Len(token) # 2
         THEN [st EXCEPT !.thrown = TRUE]
         ELSE IF /\ ~(st.position.activeColor = BLACK /\ toRank(token[2]) = 2)
                 /\ ~(st.position.activeColor = WHITE /\ toRank(token[2]) = 5)
              THEN [st EXCEPT !.thrown = TRUE]
              ELSE [st EXCEPT !.position =
                       setEnPassantSquare(@, SquareValueOf(toFile(token[1]), toRank(token[2])))]

\* Parse halfmove clock, when there is a fifth token
parseHalfmoveClock(st, tokens) ==
    IF st.thrown \/ Len(tokens) < 5
    THEN st
    ELSE IF ~stoi(tokens[5])[1] \/ stoi(tokens[5])[2] < 0
         THEN [st EXCEPT !.thrown = TRUE]
         ELSE [st EXCEPT !.position = setHalfmoveClock(@, stoi(tokens[5])[2])]

\* Parse fullmove number, when there is a sixth token
parseFullmoveNumber(st, tokens) ==
    IF st.thrown \/ Len(tokens) # 6
    THEN st
    ELSE IF ~stoi(tokens[6])[1] \/ stoi(tokens[6])[2] < 1
         THEN [st EXCEPT !.thrown = TRUE]
         ELSE [st EXCEPT !.position = setFullmoveNumber(@, stoi(tokens[6])[2])]

\* the fields of a description parsed in order, from a fresh Position
parseTokens(tokens) ==
    parseFullmoveNumber(
        parseHalfmoveClock(
            parseEnPassantSquare(
                parseCastlingRights(
                    parseActiveColor(
                        parsePieces([position |-> NewPosition, file |-> 0, rank |-> 7,
                                     thrown |-> FALSE], tokens[1], 1),
                        tokens[2]),
                    tokens[3]),
                tokens[4]),
            tokens),
        tokens)

\* the tokens of the description: halfmove clock and fullmove number are optional
parseDescription(tokens) ==
    IF Len(tokens) < 4 \/ Len(tokens) > 6
    THEN [thrown |-> TRUE, position |-> NewPosition]
    ELSE [thrown |-> parseTokens(tokens).thrown, position |-> parseTokens(tokens).position]

\* Notation::toPosition: [thrown, position]; position is meaningful when not thrown
toPosition(text) == parseDescription(tokenize(text, 1, <<>>))

(***************************************************************************)
(* The moves a caller may pass to makeMove: the legal moves of the side to *)
(* move, each carrying the pieces that stand on its squares.               *)
(***************************************************************************)
SeqToSet(seq) == {seq[i] : i \in 1..Len(seq)}

\* the squares a slider on square reaches along direction, up to and
\* including the first occupied one
RECURSIVE rayTargets(_, _, _)
rayTargets(p, square, direction) ==
    LET target == square + direction
    IN IF ~SquareIsValid(target)
       THEN {}
       ELSE IF boardGet(p, target) # NOPIECE
            THEN {target}
            ELSE {target} \cup rayTargets(p, target, direction)

pieceTargets(p, square) ==
    LET piecetype == getType(boardGet(p, square))
        steps(directions) ==
            {square + d : d \in SeqToSet(directions)} \cap Squares
        rays(directions) ==
            UNION {rayTargets(p, square, d) : d \in SeqToSet(directions)}
    IN CASE piecetype = KNIGHT -> steps(knightDirections)
         [] piecetype = KING -> steps(kingDirections)
         [] piecetype = BISHOP -> rays(bishopDirections)
         [] piecetype = ROOK -> rays(rookDirections)
         [] piecetype = QUEEN -> rays(queenDirections)

pieceMoves(p, square) ==
    {MoveValueOf(NORMAL, square, target, boardGet(p, square), boardGet(p, target), NOPIECETYPE) :
        target \in {t \in pieceTargets(p, square) :
                       getColor(boardGet(p, t)) # getColor(boardGet(p, square))}}

PromotionTypes == {QUEEN, ROOK, BISHOP, KNIGHT}

pawnMoves(p, square) ==
    LET pawn == boardGet(p, square)
        color == getColor(pawn)
        forward == pawnDirections(color)[1]
        startRank == IF color = WHITE THEN 1 ELSE 6
        lastRank == IF color = WHITE THEN 7 ELSE 0
        arrive(target, targetPiece) ==
            IF getRank(target) = lastRank
            THEN {MoveValueOf(PAWNPROMOTION, square, target, pawn, targetPiece, t) :
                     t \in PromotionTypes}
            ELSE {MoveValueOf(NORMAL, square, target, pawn, targetPiece, NOPIECETYPE)}
        one == square + forward
        two == one + forward
        pushes ==
            IF SquareIsValid(one) /\ boardGet(p, one) = NOPIECE
            THEN arrive(one, NOPIECE) \cup
                 (IF getRank(square) = startRank /\ boardGet(p, two) = NOPIECE
                  THEN {MoveValueOf(PAWNDOUBLE, square, two, pawn, NOPIECE, NOPIECETYPE)}
                  ELSE {})
            ELSE {}
        diagonals == {square + pawnDirections(color)[i] : i \in 2..3} \cap Squares
        captures ==
            UNION {IF getColor(boardGet(p, t)) = opposite(color)
                   THEN arrive(t, boardGet(p, t))
                   ELSE IF t = p.enPassantSquare
                        THEN {MoveValueOf(ENPASSANT, square, t, pawn,
                                          boardGet(p, t - forward), NOPIECETYPE)}
                        ELSE {} : t \in diagonals}
    IN pushes \cup captures

castlingMoves(p) ==
    LET color == p.activeColor
        king == PieceValueOf(color, KING)
        origin == IF color = WHITE THEN e1 ELSE e8
        try(flag, target) ==
            LET rookFrom == rookOriginSquare(target)
                rookTo == rookTargetSquare(target)
                low == IF rookFrom < origin THEN rookFrom ELSE origin
                high == IF rookFrom < origin THEN origin ELSE rookFrom
            IN IF /\ flag \in p.castlingRights
                  /\ \A sq \in (low + 1)..(high - 1) : boardGet(p, sq) = NOPIECE
                  /\ ~isAttacked(p, origin, opposite(color))
                  /\ ~isAttacked(p, rookTo, opposite(color))
               THEN {MoveValueOf(CASTLING, origin, target, king, NOPIECE, NOPIECETYPE)}
               ELSE {}
    IN IF color = WHITE
       THEN try(WHITE_KINGSIDE, g1) \cup try(WHITE_QUEENSIDE, c1)
       ELSE try(BLACK_KINGSIDE, g8) \cup try(BLACK_QUEENSIDE, c8)

pseudoLegalMoves(p) ==
    UNION {IF getType(boardGet(p, sq)) = PAWN THEN pawnMoves(p, sq) ELSE pieceMoves(p, sq) :
              sq \in {s \in Squares : getColor(boardGet(p, s)) = p.activeColor}}
    \cup castlingMoves(p)

\* a position of a game: both kings stand, and the side that just moved is not in check
isLegalPosition(p) ==
    /\ \A c \in Colors : size(p.pieces[c][KING]) = 1
    /\ ~isCheck(p, opposite(p.activeColor))

\* a move is legal when it does not leave the mover's own king attacked
legalMoves(p) ==
    IF isLegalPosition(p)
    THEN {move \in pseudoLegalMoves(p) : ~isCheck(makeMove(p, move), p.activeColor)}
    ELSE {}

(***************************************************************************)
(* The positions the games of the model start from, as descriptions.       *)
(***************************************************************************)
\* r3k2r/p6p/8/8/8/8/P6P/R3K2R w KQkq - 0 1
FenCastling ==
    <<"r", "3", "k", "2", "r", "/", "p", "6", "p", "/", "8", "/", "8", "/", "8", "/", "8",
      "/", "P", "6", "P", "/", "R", "3", "K", "2", "R", " ", "w", " ", "K", "Q", "k", "q",
      " ", "-", " ", "0", " ", "1">>

\* r3k3/8/8/8/8/8/8/R3K3 w Qq - 3 10
FenRookCapture ==
    <<"r", "3", "k", "3", "/", "8", "/", "8", "/", "8", "/", "8", "/", "8", "/", "8", "/",
      "R", "3", "K", "3", " ", "w", " ", "Q", "q", " ", "-", " ", "3", " ", "1", "0">>

\* 4k3/8/8/8/1p6/8/P7/4K3 w - - 0 1
FenDoublePush ==
    <<"4", "k", "3", "/", "8", "/", "8", "/", "8", "/", "1", "p", "6", "/", "8", "/", "P",
      "7", "/", "4", "K", "3", " ", "w", " ", "-", " ", "-", " ", "0", " ", "1">>

\* 4k3/8/8/8/Pp6/8/8/4K3 b - a3 0 1
FenEnPassant ==
    <<"4", "k", "3", "/", "8", "/", "8", "/", "8", "/", "P", "p", "6", "/", "8", "/", "8",
      "/", "4", "K", "3", " ", "b", " ", "-", " ", "a", "3", " ", "0", " ", "1">>

\* 1r2k3/P7/8/8/8/8/8/4K3 w - - 0 1
FenPromotion ==
    <<"1", "r", "2", "k", "3", "/", "P", "7", "/", "8", "/", "8", "/", "8", "/", "8", "/",
      "8", "/", "4", "K", "3", " ", "w", " ", "-", " ", "-", " ", "0", " ", "1">>

\* 4k3/8/8/8/8/8/p7/1R2K3 b - - 5 20
FenPromotionBlack ==
    <<"4", "k", "3", "/", "8", "/", "8", "/", "8", "/", "8", "/", "8", "/", "p", "7", "/",
      "1", "R", "2", "K", "3", " ", "b", " ", "-", " ", "-", " ", "5", " ", "2", "0">>

GameFens ==
    {FenCastling, FenRookCapture, FenDoublePush, FenEnPassant, FenPromotion, FenPromotionBlack}

(***************************************************************************)
(* The game: a caller makes legal moves on the Position and undoes them in *)
(* LIFO order, and between games edits single squares.                     *)
(***************************************************************************)
Init ==
    /\ zobristUnset \in UnsetValues
    /\ input \in GameFens
    /\ position = toPosition(input).position
    /\ moveStack = <<>>
    /\ shadow = <<>>
    /\ last = [name |-> "toPosition"]

MakeMove ==
    /\ Len(moveStack) < MaxPly
    /\ \E move \in legalMoves(position) :
          /\ position' = makeMove(position, move)
          /\ moveStack' = Append(moveStack, move)
          /\ shadow' = Append(shadow, position)
          /\ last' = [name |-> "makeMove", move |-> move]
    /\ UNCHANGED <<zobristUnset, input>>

UndoMove ==
    /\ moveStack # <<>>
    /\ LET move == moveStack[Len(moveStack)]
       IN /\ position' = undoMove(position, move)
          /\ last' = [name |-> "undoMove", type |-> move.type, before |-> shadow[Len(shadow)]]
    /\ moveStack' = SubSeq(moveStack, 1, Len(moveStack) - 1)
    /\ shadow' = SubSeq(shadow, 1, Len(shadow) - 1)
    /\ UNCHANGED <<zobristUnset, input>>

\* single-square edits between games, on a square no description of GameFens uses
EditSquares == {SquareValueOf(3, 4)}
EditPieces == {PieceValueOf(WHITE, PAWN), PieceValueOf(BLACK, PAWN)}

Put ==
    /\ moveStack = <<>>
    /\ \E piece \in EditPieces, square \in EditSquares :
          /\ boardGet(position, square) = NOPIECE
          /\ position' = put(position, piece, square)
          /\ last' = [name |-> "put", before |-> position]
    /\ UNCHANGED <<zobristUnset, moveStack, shadow, input>>

Remove ==
    /\ moveStack = <<>>
    /\ \E square \in EditSquares :
          /\ boardGet(position, square) # NOPIECE
          /\ position' = remove(position, square)
          /\ last' = [name |-> "remove", before |-> position]
    /\ UNCHANGED <<zobristUnset, moveStack, shadow, input>>

Next ==
    \/ MakeMove
    \/ UndoMove
    \/ Put
    \/ Remove

Spec == Init /\ [][Next]_vars

(***************************************************************************)
(* Reference definitions the properties are stated with.                   *)
(***************************************************************************)
\* the hash recomputed from scratch: one table entry per occupied square, per
\* right held, for the en-passant square, and for black to move
scratchKey(p) ==
    UNION {zobristBoard(boardGet(p, sq), sq) : sq \in {o \in Squares : boardGet(p, o) # NOPIECE}}
    \cup UNION {zobristCastlingRights({f}) : f \in p.castlingRights}
    \cup (IF p.enPassantSquare # NOSQUARE
          THEN zobristEnPassantSquare(p.enPassantSquare) ELSE {})
    \cup (IF p.activeColor = BLACK THEN zobristActiveColor ELSE {})

\* the Position after undoing the k topmost moves of a stack, last made first
RECURSIVE unwind(_, _, _)
unwind(p, moves, k) ==
    IF k = 0
    THEN p
    ELSE unwind(undoMove(p, moves[Len(moves)]), SubSeq(moves, 1, Len(moves) - 1), k - 1)

\* the number of pieces of a kind the board array holds
boardCount(p, color, piecetype) ==
    Cardinality({sq \in Squares : boardGet(p, sq) = PieceValueOf(color, piecetype)})

\* the value of the pieces of a color the board array holds
boardMaterial(p, color) ==
    boardCount(p, color, PAWN) * getValue(PAWN)
    + boardCount(p, color, KNIGHT) * getValue(KNIGHT)
    + boardCount(p, color, BISHOP) * getValue(BISHOP)
    + boardCount(p, color, ROOK) * getValue(ROOK)
    + boardCount(p, color, QUEEN) * getValue(QUEEN)
    + boardCount(p, color, KING) * getValue(KING)

(***************************************************************************)
(* Properties of the game.                                                 *)
(***************************************************************************)
\* C1: undoing the pending moves in LIFO order, one or several, gives back the
\* Position as it was before the first of them was made: board, occupancy sets,
\* material, castling rights, en-passant square, active color, hash, halfmove
\* clock, halfmove number and history, for every type of move.
C1_UndoRestores ==
    /\ \A k \in 1..Len(moveStack) :
          unwind(position, moveStack, k) = shadow[Len(shadow) - k + 1]
    /\ last.name = "undoMove" => position = last.before

\* an en-passant capture, made on top of another pending move, has been undone
C1_Witness ==
    /\ last.name = "undoMove"
    /\ last.type = ENPASSANT
    /\ Len(moveStack) >= 1

\* C2: the stored hash equals the hash recomputed from scratch, in every state
\* reached by legal makeMove and matched undoMove calls.
C2_HashMatchesScratch ==
    position.zobristKey = scratchKey(position)

\* C4: the board array and the occupancy sets agree: a square holds a piece in
\* the board array exactly when it is a member of that piece's occupancy set,
\* it is a member of at most one set, and of none when it holds NOPIECE.
C4_BoardMatchesOccupancy ==
    /\ \A sq \in Squares, c \in Colors, t \in PieceTypes :
          (boardGet(position, sq) = PieceValueOf(c, t)) <=> (sq \in position.pieces[c][t])
    /\ \A sq \in Squares :
          Cardinality({ct \in Colors \X PieceTypes : sq \in position.pieces[ct[1]][ct[2]]}) <= 1
    /\ \A sq \in Squares :
          boardGet(position, sq) = NOPIECE =>
              \A c \in Colors, t \in PieceTypes : sq \notin position.pieces[c][t]
    /\ \A c \in Colors, t \in PieceTypes : position.pieces[c][t] \subseteq Squares

\* a promotion with capture was made on a board edited with put
C4_Witness ==
    /\ last.name = "makeMove"
    /\ last.move.type = PAWNPROMOTION
    /\ last.move.targetPiece # NOPIECE
    /\ \E sq \in EditSquares : boardGet(position, sq) # NOPIECE

\* C5: the material of each color is the sum of the values of its pieces on the
\* board; a move lowers the other side's material by the value of the captured
\* piece only, and changes the mover's by value(promotion) - value(pawn) only.
C5_MaterialIsSum ==
    /\ \A c \in Colors : position.material[c] = boardMaterial(position, c)
    /\ last.name = "makeMove" =>
          LET move == last.move
              mover == getColor(move.originPiece)
              before == shadow[Len(shadow)]
          IN /\ position.material[opposite(mover)] =
                   before.material[opposite(mover)]
                   - (IF move.targetPiece # NOPIECE
                      THEN getValue(getType(move.targetPiece)) ELSE 0)
             /\ position.material[mover] =
                   before.material[mover]
                   + (IF move.type = PAWNPROMOTION
                      THEN getValue(move.promotion) - getValue(PAWN) ELSE 0)

\* a pawn has captured a rook and become a knight
C5_Witness ==
    /\ last.name = "makeMove"
    /\ last.move.type = PAWNPROMOTION
    /\ last.move.promotion = KNIGHT
    /\ getType(last.move.targetPiece) = ROOK

(***************************************************************************)
(* Construction: a caller builds a Position from a fresh one with the      *)
(* construction API, as Notation::toPosition does.                         *)
(***************************************************************************)
BuildSquareOrder == <<e1, e8, a1, h8, d1, d8>>
BuildSquares ==
    {BuildSquareOrder[i] : i \in 1..(IF MaxBuildSquares < Len(BuildSquareOrder)
                                     THEN MaxBuildSquares ELSE Len(BuildSquareOrder))}
BuildPieces == {PieceValueOf(WHITE, KING), PieceValueOf(BLACK, PAWN)}
BuildEnPassantSquares == {NOSQUARE, SquareValueOf(0, 2), SquareValueOf(4, 5)}

InitBuild ==
    /\ zobristUnset \in UnsetValues
    /\ input = <<>>
    /\ position = NewPosition
    /\ moveStack = <<>>
    /\ shadow = <<>>
    /\ last = [name |-> "Position"]

BuildPut ==
    /\ \E piece \in BuildPieces, square \in BuildSquares :
          /\ boardGet(position, square) = NOPIECE
          /\ position' = put(position, piece, square)
          /\ last' = [name |-> "put", before |-> position]
    /\ UNCHANGED <<zobristUnset, moveStack, shadow, input>>

BuildRemove ==
    /\ \E square \in BuildSquares :
          /\ boardGet(position, square) # NOPIECE
          /\ position' = remove(position, square)
          /\ last' = [name |-> "remove", before |-> position]
    /\ UNCHANGED <<zobristUnset, moveStack, shadow, input>>

SetActiveColor ==
    /\ \E activeColor \in Colors :
          /\ position' = setActiveColor(position, activeColor)
          /\ last' = [name |-> "setActiveColor", arg |-> activeColor, before |-> position]
    /\ UNCHANGED <<zobristUnset, moveStack, shadow, input>>

SetCastlingRight ==
    /\ \E flag \in CastlingFlags :
          /\ position' = setCastlingRight(position, {flag})
          /\ last' = [name |-> "setCastlingRight", arg |-> {flag}, before |-> position]
    /\ UNCHANGED <<zobristUnset, moveStack, shadow, input>>

SetEnPassantSquare ==
    /\ \E square \in BuildEnPassantSquares :
          /\ position' = setEnPassantSquare(position, square)
          /\ last' = [name |-> "setEnPassantSquare", arg |-> square, before |-> position]
    /\ UNCHANGED <<zobristUnset, moveStack, shadow, input>>

NextBuild ==
    \/ BuildPut
    \/ BuildRemove
    \/ SetActiveColor
    \/ SetCastlingRight
    \/ SetEnPassantSquare

SpecBuild == InitBuild /\ [][NextBuild]_vars

\* C3: after any sequence of put, remove, setActiveColor, setCastlingRight and
\* setEnPassantSquare calls on a fresh Position the hash equals the hash
\* recomputed from scratch, with no finalize step; a setActiveColor or
\* setCastlingRight call whose argument is already in force leaves the hash as
\* it was.
C3_BuildHash ==
    /\ position.zobristKey = scratchKey(position)
    /\ (last.name = "setActiveColor" /\ last.before.activeColor = last.arg)
          => position.zobristKey = last.before.zobristKey
    /\ (last.name = "setCastlingRight" /\ last.arg \subseteq last.before.castlingRights)
          => position.zobristKey = last.before.zobristKey

\* setCastlingRight was called with a right already held, on a Position with
\* pieces, black to move and an en-passant square
C3_Witness ==
    /\ last.name = "setCastlingRight"
    /\ last.arg \subseteq last.before.castlingRights
    /\ DOMAIN position.board # {}
    /\ position.activeColor = BLACK
    /\ position.enPassantSquare # NOSQUARE

(***************************************************************************)
(* Material: a caller places and removes pieces of every kind and asks     *)
(* whether the material is insufficient.                                   *)
(***************************************************************************)
MaterialSquares ==
    {BuildSquareOrder[i] : i \in 1..(IF MaxMaterialSquares < Len(BuildSquareOrder)
                                     THEN MaxMaterialSquares ELSE Len(BuildSquareOrder))}

InitMaterial ==
    /\ zobristUnset \in UnsetValues
    /\ input = <<>>
    /\ position = NewPosition
    /\ moveStack = <<>>
    /\ shadow = <<>>
    /\ last = [name |-> "Position"]

MaterialPut ==
    /\ \E piece \in Pieces, square \in MaterialSquares :
          /\ boardGet(position, square) = NOPIECE
          /\ position' = put(position, piece, square)
    /\ last' = [name |-> "put"]
    /\ UNCHANGED <<zobristUnset, moveStack, shadow, input>>

MaterialRemove ==
    /\ \E square \in MaterialSquares :
          /\ boardGet(position, square) # NOPIECE
          /\ position' = remove(position, square)
    /\ last' = [name |-> "remove"]
    /\ UNCHANGED <<zobristUnset, moveStack, shadow, input>>

HasInsufficientMaterial ==
    /\ last' = [name |-> "hasInsufficientMaterial", ret |-> hasInsufficientMaterial(position)]
    /\ UNCHANGED <<position, zobristUnset, moveStack, shadow, input>>

NextMaterial ==
    \/ MaterialPut
    \/ MaterialRemove
    \/ HasInsufficientMaterial

SpecMaterial == InitMaterial /\ [][NextMaterial]_vars

\* the number of knights and bishops of a color the board array holds
boardMinors(p, color) ==
    boardCount(p, color, KNIGHT) + boardCount(p, color, BISHOP)

\* C9: hasInsufficientMaterial returns true exactly when neither color has a
\* pawn, a rook or a queen and each color has at most one knight or bishop.
C9_InsufficientMaterial ==
    last.name = "hasInsufficientMaterial" =>
        (last.ret <=>
            /\ \A c \in Colors, t \in {PAWN, ROOK, QUEEN} : boardCount(position, c, t) = 0
            /\ \A c \in Colors : boardMinors(position, c) <= 1)

\* the call returned true for king and bishop against a lone king
C9_Witness ==
    /\ last.name = "hasInsufficientMaterial"
    /\ last.ret = TRUE
    /\ \A c \in Colors : boardCount(position, c, KING) = 1
    /\ boardCount(position, WHITE, BISHOP) = 1
    /\ Cardinality(DOMAIN position.board) = 3

(***************************************************************************)
(* The attack oracle on small boards: a caller places one piece, possibly  *)
(* a second one on a line of the first, and asks for every square whether  *)
(* a color attacks it.                                                     *)
(***************************************************************************)
Abs(x) == IF x < 0 THEN 0 - x ELSE x
Sign(x) == IF x < 0 THEN -1 ELSE IF x > 0 THEN 1 ELSE 0

\* the rules of movement, in file and rank coordinates
onDiagonal(from, to) ==
    /\ from # to
    /\ Abs(getFile(to) - getFile(from)) = Abs(getRank(to) - getRank(from))
onLine(from, to) ==
    /\ from # to
    /\ (getFile(to) = getFile(from)) \/ (getRank(to) = getRank(from))

\* the squares strictly between two squares of one line or diagonal
between(from, to) ==
    LET df == Sign(getFile(to) - getFile(from))
        dr == Sign(getRank(to) - getRank(from))
        n == Max(Abs(getFile(to) - getFile(from)), Abs(getRank(to) - getRank(from)))
    IN {SquareValueOf(getFile(from) + i * df, getRank(from) + i * dr) : i \in 1..(n - 1)}

\* the piece type moves along the line or diagonal that joins the two squares
ridesTo(piecetype, from, to) ==
    \/ piecetype \in {BISHOP, QUEEN} /\ onDiagonal(from, to)
    \/ piecetype \in {ROOK, QUEEN} /\ onLine(from, to)

\* under the rules of chess the piece on square from attacks square to
refAttacks(p, from, to) ==
    LET piece == boardGet(p, from)
        df == getFile(to) - getFile(from)
        dr == getRank(to) - getRank(from)
    IN CASE getType(piece) = PAWN ->
                Abs(df) = 1 /\ dr = (IF getColor(piece) = WHITE THEN 1 ELSE -1)
         [] getType(piece) = KNIGHT -> {Abs(df), Abs(dr)} = {1, 2}
         [] getType(piece) = KING -> from # to /\ Abs(df) <= 1 /\ Abs(dr) <= 1
         [] OTHER ->
                /\ ridesTo(getType(piece), from, to)
                /\ \A sq \in between(from, to) : boardGet(p, sq) = NOPIECE

Sliders == {BISHOP, ROOK, QUEEN}
BlockerPieces == {PieceValueOf(WHITE, PAWN), PieceValueOf(WHITE, QUEEN)}

InitAttack ==
    /\ zobristUnset \in UnsetValues
    /\ input = <<>>
    /\ position = NewPosition
    /\ moveStack = <<>>
    /\ shadow = <<>>
    /\ last = [name |-> "Position"]

PlaceAttacker ==
    /\ DOMAIN position.board = {}
    /\ \E piece \in Pieces, square \in Squares :
          position' = put(position, piece, square)
    /\ last' = [name |-> "put"]
    /\ UNCHANGED <<zobristUnset, moveStack, shadow, input>>

PlaceBlocker ==
    /\ Cardinality(DOMAIN position.board) = 1
    /\ \E attacker \in DOMAIN position.board, piece \in BlockerPieces, square \in Squares :
          /\ getType(position.board[attacker]) \in Sliders
          /\ ridesTo(getType(position.board[attacker]), attacker, square)
          /\ position' = put(position, piece, square)
    /\ last' = [name |-> "put"]
    /\ UNCHANGED <<zobristUnset, moveStack, shadow, input>>

\* isAttacked(targetSquare, attackerColor), called for every valid targetSquare
IsAttacked ==
    /\ DOMAIN position.board # {}
    /\ last.name = "put"
    /\ \E attackerColor \in Colors :
          last' = [name |-> "isAttacked", attackerColor |-> attackerColor,
                   attacked |-> {t \in Squares : isAttacked(position, t, attackerColor)}]
    /\ UNCHANGED <<position, zobristUnset, moveStack, shadow, input>>

NextAttack ==
    \/ PlaceAttacker
    \/ PlaceBlocker
    \/ IsAttacked

SpecAttack == InitAttack /\ [][NextAttack]_vars

\* C7: with a single piece on the board, isAttacked(target, color of the piece)
\* is true exactly for the squares that piece attacks under the rules: a pawn the
\* squares diagonally forward, a knight and a king their one-step squares, a
\* bishop, rook or queen every square of its rays up to the edge; no square is
\* attacked across an edge.
C7_SingleAttacker ==
    (/\ last.name = "isAttacked"
     /\ Cardinality(DOMAIN position.board) = 1) =>
        \A from \in DOMAIN position.board :
            last.attackerColor = getColor(position.board[from]) =>
                last.attacked = {t \in Squares : refAttacks(position, from, t)}

\* the question was asked for a lone pawn on the h-file
C7_Witness ==
    /\ last.name = "isAttacked"
    /\ Cardinality(DOMAIN position.board) = 1
    /\ \E from \in DOMAIN position.board :
          /\ getType(position.board[from]) = PAWN
          /\ getFile(from) = 7
          /\ last.attackerColor = getColor(position.board[from])
          /\ Cardinality(last.attacked) = 1

\* square t lies on the ray that leaves square a towards square b
sameRay(a, b, t) ==
    /\ onDiagonal(a, t) \/ onLine(a, t)
    /\ Sign(getFile(t) - getFile(a)) = Sign(getFile(b) - getFile(a))
    /\ Sign(getRank(t) - getRank(a)) = Sign(getRank(b) - getRank(a))

\* the pairs (slider, blocker) of a two-piece board the question was asked about:
\* the blocker stands on a ray of the slider, the color asked is the slider's
blockedPairs ==
    {pair \in (DOMAIN position.board) \X (DOMAIN position.board) :
        /\ last.name = "isAttacked"
        /\ Cardinality(DOMAIN position.board) = 2
        /\ pair[1] # pair[2]
        /\ getType(position.board[pair[1]]) \in Sliders
        /\ ridesTo(getType(position.board[pair[1]]), pair[1], pair[2])
        /\ last.attackerColor = getColor(position.board[pair[1]])}

\* C8 as stated: along the blocked ray isAttacked is true only strictly between
\* the slider and the blocker, false on the blocker's square and beyond; the
\* slider's other rays are unaffected.
C8_Original ==
    \A pair \in blockedPairs :
        \A t \in Squares :
            ridesTo(getType(position.board[pair[1]]), pair[1], t) =>
                IF sameRay(pair[1], pair[2], t)
                THEN (t \in last.attacked) <=> (t \in between(pair[1], pair[2]))
                ELSE t \in last.attacked

\* C8: with one further piece on a ray of a bishop, rook or queen of
\* attackerColor, isAttacked is true for the targets strictly between the two
\* and for the blocker's own square; beyond the blocker it is true only where
\* the blocker is itself a piece of attackerColor that attacks the target; the
\* slider's other rays are unaffected.
C8_BlockedRay ==
    \A pair \in blockedPairs :
        \A t \in Squares :
            ridesTo(getType(position.board[pair[1]]), pair[1], t) =>
                IF sameRay(pair[1], pair[2], t)
                THEN IF t \in between(pair[1], pair[2]) \/ t = pair[2]
                     THEN t \in last.attacked
                     ELSE (t \in last.attacked) <=>
                            /\ getColor(position.board[pair[2]]) = last.attackerColor
                            /\ refAttacks(position, pair[2], t)
                ELSE t \in last.attacked

\* a piece of the other color blocks the slider: its square is attacked, and
\* there are squares behind it, none of them attacked
C8_Witness ==
    \E pair \in blockedPairs :
        /\ getColor(position.board[pair[2]]) # last.attackerColor
        /\ between(pair[1], pair[2]) # {}
        /\ pair[2] \in last.attacked
        /\ \E t \in Squares : sameRay(pair[1], pair[2], t) /\ pair[2] \in between(pair[1], t)
        /\ \A t \in Squares :
              (sameRay(pair[1], pair[2], t) /\ pair[2] \in between(pair[1], t))
                  => t \notin last.attacked

(***************************************************************************)
(* Repetition: the two sides shuffle pieces inside a corner of the board   *)
(* and the caller asks isRepetition between the moves.                     *)
(***************************************************************************)
MaxRepPly == 8

\* 4k1n1/8/8/8/8/8/8/4K1N1 w - - 0 1
FenKnights ==
    <<"4", "k", "1", "n", "1", "/", "8", "/", "8", "/", "8", "/", "8", "/", "8", "/", "8",
      "/", "4", "K", "1", "N", "1", " ", "w", " ", "-", " ", "-", " ", "0", " ", "1">>

\* 4k1n1/8/8/8/8/8/8/4K2R w K - 0 1
FenRookShuffle ==
    <<"4", "k", "1", "n", "1", "/", "8", "/", "8", "/", "8", "/", "8", "/", "8", "/", "8",
      "/", "4", "K", "2", "R", " ", "w", " ", "K", " ", "-", " ", "0", " ", "1">>

RepFens == {FenKnights, FenRookShuffle}

\* the squares the shuffling pieces stay on
RepSquares ==
    {d1, e1, g1, h1, SquareValueOf(5, 2), SquareValueOf(7, 2),
     d8, e8, g8, SquareValueOf(5, 5), SquareValueOf(7, 5)}

InitRep ==
    /\ zobristUnset \in UnsetValues
    /\ input \in RepFens
    /\ position = toPosition(input).position
    /\ moveStack = <<>>
    /\ shadow = <<>>
    /\ last = [name |-> "toPosition"]

RepMakeMove ==
    /\ Len(moveStack) < MaxRepPly
    /\ \E move \in legalMoves(position) :
          /\ move.originSquare \in RepSquares
          /\ move.targetSquare \in RepSquares
          /\ position' = makeMove(position, move)
          /\ moveStack' = Append(moveStack, move)
          /\ shadow' = Append(shadow, position)
          /\ last' = [name |-> "makeMove", move |-> move]
    /\ UNCHANGED <<zobristUnset, input>>

IsRepetition ==
    /\ last' = [name |-> "isRepetition", ret |-> isRepetition(position)]
    /\ UNCHANGED <<position, zobristUnset, moveStack, shadow, input>>

NextRep ==
    \/ RepMakeMove
    \/ IsRepetition

SpecRep == InitRep /\ [][NextRep]_vars

\* two Positions are the same position of the game: piece placement, side to
\* move, castling rights and en-passant square agree
samePosition(p, q) ==
    /\ \A sq \in Squares : boardGet(p, sq) = boardGet(q, sq)
    /\ p.activeColor = q.activeColor
    /\ p.castlingRights = q.castlingRights
    /\ p.enPassantSquare = q.enPassantSquare

\* how many times the game has reached the current position, this time included
Visits ==
    1 + Cardinality({k \in 1..Len(shadow) : samePosition(shadow[k], position)})

\* C6 as stated: isRepetition is true when the current position has been reached
\* for the third time, and false when it has been reached only twice.
C6_Original ==
    last.name = "isRepetition" =>
        /\ (Visits >= 3 => last.ret = TRUE)
        /\ (Visits = 2 => last.ret = FALSE)

\* C6: isRepetition is true as soon as the current position has been reached
\* once before through makeMove, so at its second visit already, and at its
\* third and every later one.
C6_RepetitionFromSecondVisit ==
    (last.name = "isRepetition" /\ Visits >= 2) => last.ret = TRUE

\* the question was asked at the third visit of a position
C6_Witness ==
    /\ last.name = "isRepetition"
    /\ Visits = 3
    /\ last.ret = TRUE

(***************************************************************************)
(* Reading descriptions: a caller hands toPosition a description whose     *)
(* piece placement has up to MaxRanks ranks, all empty but one.            *)
(***************************************************************************)
MaxRanks == 8

\* the texts of the one rank that is not "8": 8, 7, 9, P7, P6, P8, 44, 43
RankTexts ==
    {<<"8">>, <<"7">>, <<"9">>, <<"P", "7">>, <<"P", "6">>, <<"P", "8">>,
     <<"4", "4">>, <<"4", "3">>}

\* what follows the piece placement: " w -", " w - -", " w - - 0 1"
TailTexts ==
    {<<" ", "w", " ", "-">>,
     <<" ", "w", " ", "-", " ", "-">>,
     <<" ", "w", " ", "-", " ", "-", " ", "0", " ", "1">>}

\* n ranks, rank k (counted from the first written) being text, joined by '/'
RECURSIVE placementText(_, _, _)
placementText(n, k, text) ==
    IF n = 0
    THEN <<>>
    ELSE placementText(n - 1, k, text)
         \o (IF n = 1 THEN <<>> ELSE <<"/">>)
         \o (IF n = k THEN text ELSE <<"8">>)

FenInputs ==
    {placementText(n, k, text) \o tail :
        n \in 1..MaxRanks, k \in 1..MaxRanks, text \in RankTexts, tail \in TailTexts}

InitFen ==
    /\ zobristUnset \in UnsetValues
    /\ input \in FenInputs
    /\ position = NewPosition
    /\ moveStack = <<>>
    /\ shadow = <<>>
    /\ last = [name |-> "Position"]

\* position = Notation::toPosition(input); the assignment happens when nothing is thrown
ToPosition ==
    /\ last.name = "Position"
    /\ LET result == toPosition(input)
       IN /\ position' = IF result.thrown THEN position ELSE result.position
          /\ last' = [name |-> "toPosition", thrown |-> result.thrown]
    /\ UNCHANGED <<zobristUnset, moveStack, shadow, input>>

NextFen == ToPosition

SpecFen == InitFen /\ [][NextFen]_vars

\* the number of space-separated fields of a description
fieldCount(text) ==
    Cardinality({i \in 1..Len(text) : text[i] # " " /\ (i = 1 \/ text[i - 1] = " ")})

\* the piece placement: the characters of the first field
placementOf(text) ==
    LET first == CHOOSE i \in 1..Len(text) : text[i] # " " /\ \A h \in 1..(i - 1) : text[h] = " "
        stop == CHOOSE i \in first..(Len(text) + 1) :
                    /\ i = Len(text) + 1 \/ text[i] = " "
                    /\ \A h \in first..(i - 1) : text[h] # " "
    IN SubSeq(text, first, stop - 1)

\* the squares a stretch of a piece placement describes: a digit its value, a letter one
RECURSIVE squaresOf(_, _, _)
squaresOf(field, from, to) ==
    IF from > to
    THEN 0
    ELSE (IF isdigit(field[from]) THEN digitValue(field[from]) ELSE 1)
         + squaresOf(field, from + 1, to)

\* the ranks of a piece placement, as pairs (first index, last index)
rankBounds(field) ==
    LET cuts == {0, Len(field) + 1} \cup {i \in 1..Len(field) : field[i] = "/"}
    IN {<<a + 1, b - 1>> : <<a, b>> \in
           {c \in cuts \X cuts : c[1] < c[2] /\ \A m \in cuts : ~(c[1] < m /\ m < c[2])}}

\* every rank of the placement describes exactly 8 squares, and there are 8 ranks
placementWellFormed(field) ==
    /\ Cardinality(rankBounds(field)) = 8
    /\ \A rank \in rankBounds(field) : squaresOf(field, rank[1], rank[2]) = 8

\* C10 as stated: toPosition fails for a description of only 3 fields, and for
\* any piece placement in which some rank does not describe exactly 8 squares,
\* the last rank and a placement of fewer than 8 ranks included.
C10_Original ==
    (/\ last.name = "toPosition"
     /\ fieldCount(input) = 3 \/ ~placementWellFormed(placementOf(input)))
        => last.thrown = TRUE

(***************************************************************************)
(* Reading the en-passant field: a caller hands toPosition descriptions of *)
(* two bare kings whose en-passant field is any text of up to MaxEpLen     *)
(* characters.                                                             *)
(***************************************************************************)
MaxEpLen == 2

EpChars == {"a", "e", "h", "i", "x", "-", "3", "4", "6", "9"}

\* the texts of 1..MaxEpLen characters over EpChars
EpTexts ==
    UNION {[1..n -> EpChars] : n \in 1..MaxEpLen}

\* 4k3/8/8/8/8/8/8/4K3
BareKings ==
    <<"4", "k", "3", "/", "8", "/", "8", "/", "8", "/", "8", "/", "8", "/", "8", "/",
      "4", "K", "3">>

EnPassantInputs ==
    {BareKings \o <<" ", color, " ", "-", " ">> \o text \o <<" ", "0", " ", "1">> :
        color \in {"w", "b"}, text \in EpTexts}

InitEnPassant ==
    /\ zobristUnset \in UnsetValues
    /\ input \in EnPassantInputs
    /\ position = NewPosition
    /\ moveStack = <<>>
    /\ shadow = <<>>
    /\ last = [name |-> "Position"]

NextEnPassant == ToPosition

SpecEnPassant == InitEnPassant /\ [][NextEnPassant]_vars

\* the n-th space-separated field of a description
fieldOf(text, n) == tokenize(text, 1, <<>>)[n]

\* an en-passant field the description format allows: '-', or a file letter
\* a-h followed by 6 when white is to move, by 3 when black is to move
enPassantFieldAllowed(text) ==
    LET field == fieldOf(text, 4)
    IN \/ field = <<"-">>
       \/ /\ Len(field) = 2
          /\ field[1] \in {"a", "b", "c", "d", "e", "f", "g", "h"}
          /\ field[2] = (IF fieldOf(text, 2) = <<"w">> THEN "6" ELSE "3")

\* C11 as stated: toPosition rejects every description whose en-passant field
\* is neither '-' nor a file letter a-h followed by rank 6 (white to move) or
\* rank 3 (black to move), and no accepted description yields a Position whose
\* en-passant square is off the board.
C11_Original ==
    last.name = "toPosition" =>
        /\ ~enPassantFieldAllowed(input) => last.thrown = TRUE
        /\ last.thrown = FALSE =>
              \/ position.enPassantSquare = NOSQUARE
              \/ SquareIsValid(position.enPassantSquare)

(***************************************************************************)
(* Writing descriptions: Notation::fromPosition.                           *)
(***************************************************************************)
\* std::to_string of a number >= 0
RECURSIVE to_string(_)
to_string(n) ==
    IF n < 10
    THEN <<Digits[n + 1]>>
    ELSE Append(to_string(n \div 10), Digits[(n % 10) + 1])

\* Notation::fromSquare
fromSquare(square) == <<fromFile(getFile(square)), fromRank(getRank(square))>>

\* the loop over the files of one rank: st is [fen, emptySquares]
rankNotationStep(p, rank, st, file) ==
    LET piece == boardGet(p, SquareValueOf(file, rank))
    IN IF piece = NOPIECE
       THEN [st EXCEPT !.emptySquares = @ + 1]
       ELSE [fen |-> (IF st.emptySquares > 0
                      THEN st.fen \o to_string(st.emptySquares)
                      ELSE st.fen) \o <<fromPiece(piece)>>,
             emptySquares |-> 0]

RECURSIVE rankNotationLoop(_, _, _, _)
rankNotationLoop(p, rank, st, file) ==
    IF file > 7
    THEN st
    ELSE rankNotationLoop(p, rank, rankNotationStep(p, rank, st, file), file + 1)

\* the text fromPosition appends for one rank, '/' included
rankNotation(p, rank) ==
    (IF rankNotationLoop(p, rank, [fen |-> <<>>, emptySquares |-> 0], 0).emptySquares > 0
     THEN rankNotationLoop(p, rank, [fen |-> <<>>, emptySquares |-> 0], 0).fen
          \o to_string(rankNotationLoop(p, rank, [fen |-> <<>>, emptySquares |-> 0], 0).emptySquares)
     ELSE rankNotationLoop(p, rank, [fen |-> <<>>, emptySquares |-> 0], 0).fen)
    \o (IF rank > 0 THEN <<"/">> ELSE <<>>)

\* Pieces: the ranks from r8 down to rank
RECURSIVE piecesNotation(_, _)
piecesNotation(p, rank) ==
    IF rank > 7
    THEN <<>>
    ELSE piecesNotation(p, rank + 1) \o rankNotation(p, rank)

\* a mutation of castlingNotation: the black rights are written first
castlingNotationBlackFirst(p) ==
    (IF BLACK_KINGSIDE \in p.castlingRights THEN <<fromCastling(BLACK_KINGSIDE)>> ELSE <<>>)
    \o (IF BLACK_QUEENSIDE \in p.castlingRights THEN <<fromCastling(BLACK_QUEENSIDE)>> ELSE <<>>)
    \o (IF WHITE_KINGSIDE \in p.castlingRights THEN <<fromCastling(WHITE_KINGSIDE)>> ELSE <<>>)
    \o (IF WHITE_QUEENSIDE \in p.castlingRights THEN <<fromCastling(WHITE_QUEENSIDE)>> ELSE <<>>)

\* Castling: castlingNotation
castlingNotation(p) ==
    (IF WHITE_KINGSIDE \in p.castlingRights THEN <<fromCastling(WHITE_KINGSIDE)>> ELSE <<>>)
    \o (IF WHITE_QUEENSIDE \in p.castlingRights THEN <<fromCastling(WHITE_QUEENSIDE)>> ELSE <<>>)
    \o (IF BLACK_KINGSIDE \in p.castlingRights THEN <<fromCastling(BLACK_KINGSIDE)>> ELSE <<>>)
    \o (IF BLACK_QUEENSIDE \in p.castlingRights THEN <<fromCastling(BLACK_QUEENSIDE)>> ELSE <<>>)

\* Notation::fromPosition
fromPosition(p) ==
    piecesNotation(p, 0)
    \o <<" ", fromColor(p.activeColor), " ">>
    \o (IF castlingNotation(p) = <<>> THEN <<"-">> ELSE castlingNotation(p))
    \o <<" ">>
    \o (IF p.enPassantSquare # NOSQUARE THEN fromSquare(p.enPassantSquare) ELSE <<"-">>)
    \o <<" ">>
    \o to_string(p.halfmoveClock)
    \o <<" ">>
    \o to_string(getFullmoveNumber(p))

(***************************************************************************)
(* Round trip: a caller parses a description and writes the Position back. *)
(***************************************************************************)
MaxClockText == 11

\* rnbqkbnr/pppppppp/8/8/8/8/PPPPPPPP/RNBQKBNR
StandardPlacement ==
    <<"r", "n", "b", "q", "k", "b", "n", "r", "/", "p", "p", "p", "p", "p", "p", "p", "p",
      "/", "8", "/", "8", "/", "8", "/", "8", "/",
      "P", "P", "P", "P", "P", "P", "P", "P", "/", "R", "N", "B", "Q", "K", "B", "N", "R">>

\* Notation::STANDARDPOSITION
STANDARDPOSITION ==
    StandardPlacement \o <<" ", "w", " ", "K", "Q", "k", "q", " ", "-", " ", "0", " ", "1">>

\* the castling fields written in the order K, Q, k, q
CastlingTexts ==
    {<<"-">>, <<"K">>, <<"Q">>, <<"k">>, <<"q">>, <<"K", "Q">>, <<"k", "q">>, <<"K", "k">>,
     <<"Q", "q">>, <<"K", "Q", "k">>, <<"K", "Q", "k", "q">>}

\* the standard placement with every tail of the bounded sets, and the game fixtures
RoundTripInputs ==
    {StandardPlacement \o <<" ", color, " ">> \o castling \o <<" ", "-", " ">>
        \o to_string(clock) \o <<" ">> \o to_string(number) :
        color \in {"w", "b"}, castling \in CastlingTexts,
        clock \in {0, MaxClockText - 1, MaxClockText}, number \in {1, MaxClockText}}
    \cup GameFens

InitRoundTrip ==
    /\ zobristUnset \in UnsetValues
    /\ input \in RoundTripInputs
    /\ position = NewPosition
    /\ moveStack = <<>>
    /\ shadow = <<>>
    /\ last = [name |-> "Position"]

FromPosition ==
    /\ last.name = "toPosition"
    /\ last.thrown = FALSE
    /\ last' = [name |-> "fromPosition", ret |-> fromPosition(position)]
    /\ UNCHANGED <<position, zobristUnset, moveStack, shadow, input>>

NextRoundTrip ==
    \/ ToPosition
    \/ FromPosition

SpecRoundTrip == InitRoundTrip /\ [][NextRoundTrip]_vars

\* C12: writing the Position parsed from the standard starting description
\* gives back exactly that description: placement, active color w, castling
\* KQkq in that order, en-passant '-', halfmove clock 0, fullmove number 1.
C12_StandardRoundTrip ==
    (last.name = "fromPosition" /\ input = STANDARDPOSITION) =>
        /\ last.ret = STANDARDPOSITION
        /\ getFullmoveNumber(position) = 1
        /\ position.halfmoveClock = 0

\* the standard starting description was parsed and written back
C12_Witness ==
    /\ last.name = "fromPosition"
    /\ input = STANDARDPOSITION
    /\ Len(last.ret) = Len(STANDARDPOSITION)

(***************************************************************************)
(* Properties of makeMove and undoMove, step by step.                      *)
(***************************************************************************)
\* C13: the history depth equals the number of makeMove calls not yet undone,
\* is never negative, and the snapshot at index i holds the hash, castling
\* rights, en-passant square and halfmove clock that were current just before
\* the (i+1)-th pending move was made.
C13_HistoryDepth ==
    /\ statesSize(position) = Len(moveStack)
    /\ statesSize(position) >= 0
    /\ \A i \in 0..(statesSize(position) - 1) :
          stateAt(position, i) =
              [zobristKey |-> shadow[i + 1].zobristKey,
               castlingRights |-> shadow[i + 1].castlingRights,
               enPassantSquare |-> shadow[i + 1].enPassantSquare,
               halfmoveClock |-> shadow[i + 1].halfmoveClock]

\* two moves are pending, and the second was made while an en-passant square
\* was set
C13_Witness ==
    /\ last.name = "makeMove"
    /\ statesSize(position) = 2
    /\ stateAt(position, 1).enPassantSquare # NOSQUARE
    /\ stateAt(position, 0).enPassantSquare = NOSQUARE

\* C14: in a game played forward a castling right is never set again: the
\* rights held are a subset of those held before every pending move, and a
\* right tied to the origin square or capture square of a pending move is
\* absent.
C14_RightsNeverReturn ==
    /\ \A k \in 1..Len(shadow) : position.castlingRights \subseteq shadow[k].castlingRights
    /\ \A k \in 1..Len(moveStack) :
          /\ castlingOfSquare(moveStack[k].originSquare) \cap position.castlingRights = {}
          /\ moveStack[k].targetPiece # NOPIECE =>
                castlingOfSquare(captureSquareOf(moveStack[k])) \cap position.castlingRights = {}

\* the rook left h1 and came back while the king stayed on e1: the right is gone
C14_Witness ==
    /\ last.name = "makeMove"
    /\ Len(shadow) >= 3
    /\ WHITE_KINGSIDE \in shadow[1].castlingRights
    /\ WHITE_KINGSIDE \notin position.castlingRights
    /\ boardGet(position, h1) = PieceValueOf(WHITE, ROOK)
    /\ boardGet(position, e1) = PieceValueOf(WHITE, KING)

\* the square a pawn skips when it advances two ranks: same file, the rank in between
skippedSquare(move) ==
    SquareValueOf(getFile(move.originSquare),
                  (getRank(move.originSquare) + getRank(move.targetSquare)) \div 2)

\* C15: after every makeMove the en-passant square is the square the pawn
\* skipped if and only if the move was a double pawn push, and NOSQUARE
\* otherwise; so a square set by one move is cleared by the next makeMove
\* unless that one is a double pawn push, which replaces it.
C15_EnPassantAfterMove ==
    last.name = "makeMove" =>
        /\ last.move.type = PAWNDOUBLE =>
              /\ position.enPassantSquare = skippedSquare(last.move)
              /\ position.enPassantSquare # NOSQUARE
              /\ Abs(getRank(last.move.targetSquare) - getRank(last.move.originSquare)) = 2
        /\ last.move.type # PAWNDOUBLE => position.enPassantSquare = NOSQUARE
        /\ (shadow[Len(shadow)].enPassantSquare # NOSQUARE /\ last.move.type # PAWNDOUBLE)
              => position.enPassantSquare = NOSQUARE

\* the move after a double pawn push was not an en-passant capture, and the
\* square set by the push is gone
C15_Witness ==
    /\ last.name = "makeMove"
    /\ Len(moveStack) = 2
    /\ moveStack[1].type = PAWNDOUBLE
    /\ shadow[2].enPassantSquare = skippedSquare(moveStack[1])
    /\ last.move.type = NORMAL
    /\ position.enPassantSquare = NOSQUARE

\* the piece a reference move application leaves on a square: the origin is
\* emptied, the target takes the mover (or the promoted piece), an en-passant
\* capture empties the square beside the origin on the target's file, castling
\* carries the rook from the corner to the square the king crossed
refBoardAfter(before, move, sq) ==
    LET mover == getColor(move.originPiece)
        homeRank == getRank(move.originSquare)
        kingside == getFile(move.targetSquare) = 6
    IN CASE sq = move.originSquare -> NOPIECE
         [] sq = move.targetSquare ->
                IF move.type = PAWNPROMOTION
                THEN PieceValueOf(mover, move.promotion)
                ELSE move.originPiece
         [] move.type = ENPASSANT
            /\ sq = SquareValueOf(getFile(move.targetSquare), homeRank) -> NOPIECE
         [] move.type = CASTLING
            /\ sq = SquareValueOf(IF kingside THEN 7 ELSE 0, homeRank) -> NOPIECE
         [] move.type = CASTLING
            /\ sq = SquareValueOf(IF kingside THEN 5 ELSE 3, homeRank) ->
                boardGet(before, SquareValueOf(IF kingside THEN 7 ELSE 0, homeRank))
         [] OTHER -> boardGet(before, sq)

\* C16: for every move type the board after makeMove equals the board a
\* reference move application produces from the board before: origin emptied,
\* target holding the mover or the promoted piece, the captured piece removed
\* (for en passant from the square behind the target), the castling rook carried
\* h1->f1, a1->d1, h8->f8 or a8->d8, every other square unchanged.
C16_BoardAfterMove ==
    last.name = "makeMove" =>
        \A sq \in Squares :
            boardGet(position, sq) = refBoardAfter(shadow[Len(shadow)], last.move, sq)

\* black has castled queenside after a white move
C16_Witness ==
    /\ last.name = "makeMove"
    /\ last.move.type = CASTLING
    /\ last.move.targetSquare = c8
    /\ boardGet(position, d8) = PieceValueOf(BLACK, ROOK)
    /\ boardGet(position, a8) = NOPIECE
    /\ Len(moveStack) = 2

\* the castling rights a reference move application takes away: those tied to
\* the origin square and, when the move captures, to the square of the capture
refRightsLost(move) ==
    castlingOfSquare(move.originSquare)
    \cup (IF move.targetPiece = NOPIECE
          THEN {}
          ELSE IF move.type = ENPASSANT
               THEN castlingOfSquare(SquareValueOf(getFile(move.targetSquare),
                                                   getRank(move.originSquare)))
               ELSE castlingOfSquare(move.targetSquare))

\* C17: makeMove clears exactly the castling rights tied to the move's origin
\* square and, when it captures, to its capture square, and leaves every other
\* right unchanged; a move that touches none of a1, h1, a8, h8, e1, e8 in that
\* way leaves the castling rights unchanged.
C17_RightsCleared ==
    last.name = "makeMove" =>
        /\ position.castlingRights =
              shadow[Len(shadow)].castlingRights \ refRightsLost(last.move)
        /\ refRightsLost(last.move) = {} =>
              position.castlingRights = shadow[Len(shadow)].castlingRights

\* the rook from a1 has captured the rook on a8: one right of each color is lost
C17_Witness ==
    /\ last.name = "makeMove"
    /\ last.move.originSquare = a1
    /\ last.move.targetSquare = a8
    /\ last.move.targetPiece = PieceValueOf(BLACK, ROOK)
    /\ shadow[Len(shadow)].castlingRights = {WHITE_QUEENSIDE, BLACK_QUEENSIDE}
    /\ position.castlingRights = {}

\* C18: after makeMove the halfmove clock is 0 if the moved piece is a pawn or
\* the move captured a piece, and the previous value plus 1 otherwise, castling
\* included; put and remove leave it as it was.
C18_HalfmoveClock ==
    /\ last.name = "makeMove" =>
          position.halfmoveClock =
              IF \/ getType(last.move.originPiece) = PAWN
                 \/ last.move.targetPiece # NOPIECE
              THEN 0
              ELSE shadow[Len(shadow)].halfmoveClock + 1
    /\ last.name \in {"put", "remove"} =>
          position.halfmoveClock = last.before.halfmoveClock

\* a rook has captured while the clock was running: the clock is back at 0
C18_Witness ==
    /\ last.name = "makeMove"
    /\ getType(last.move.originPiece) = ROOK
    /\ last.move.targetPiece # NOPIECE
    /\ shadow[Len(shadow)].halfmoveClock > 0
    /\ position.halfmoveClock = 0

\* the fullmove number a description states: its sixth field, read as a number
statedFullmoveNumber(text) == stoi(fieldOf(text, 6))[2]

\* C19: after setActiveColor(c) and setFullmoveNumber(n), as toPosition calls
\* them, getFullmoveNumber returns n; a white makeMove leaves the fullmove
\* number as it was and a black one raises it by exactly 1; each makeMove
\* raises the halfmove number by exactly 1 and each undoMove lowers it by
\* exactly 1.
C19_FullmoveNumber ==
    /\ [](last.name = "toPosition" =>
            /\ statedFullmoveNumber(input) >= 1
            /\ getFullmoveNumber(position) = statedFullmoveNumber(input))
    /\ [][/\ last'.name = "makeMove" =>
                /\ position'.halfmoveNumber = position.halfmoveNumber + 1
                /\ getFullmoveNumber(position') =
                      getFullmoveNumber(position)
                      + (IF position.activeColor = BLACK THEN 1 ELSE 0)
          /\ last'.name = "undoMove" =>
                /\ position'.halfmoveNumber = position.halfmoveNumber - 1
                /\ getFullmoveNumber(position') =
                      getFullmoveNumber(position)
                      - (IF position.activeColor = WHITE THEN 1 ELSE 0)]_vars

\* black has moved after white in a game that started at move 10, and the
\* fullmove number is 11
C19_Witness ==
    /\ last.name = "makeMove"
    /\ Len(moveStack) = 2
    /\ getColor(last.move.originPiece) = BLACK
    /\ statedFullmoveNumber(input) = 10
    /\ getFullmoveNumber(shadow[2]) = 10
    /\ getFullmoveNumber(position) = 11

(***************************************************************************)
(* The repetition window: knights, kings and one pawn move inside a small  *)
(* region, the knights can capture each other, the description starts the  *)
(* halfmove clock above the history depth, and the caller asks             *)
(* isRepetition between the moves.                                         *)
(***************************************************************************)
MaxWindowPly == 6

\* 4k3/8/5n2/8/8/5N2/P7/4K3 w - - 7 1
FenWindow ==
    <<"4", "k", "3", "/", "8", "/", "5", "n", "2", "/", "8", "/", "8", "/", "5", "N", "2",
      "/", "P", "7", "/", "4", "K", "3", " ", "w", " ", "-", " ", "-", " ", "7", " ", "1">>

\* the squares of SpecRep, e5 and g4 where the knights meet, a2, a3 and a4
WindowSquares ==
    RepSquares \cup {SquareValueOf(4, 4), SquareValueOf(6, 3),
                     SquareValueOf(0, 1), SquareValueOf(0, 2), SquareValueOf(0, 3)}

InitWindow ==
    /\ zobristUnset \in UnsetValues
    /\ input = FenWindow
    /\ position = toPosition(input).position
    /\ moveStack = <<>>
    /\ shadow = <<>>
    /\ last = [name |-> "toPosition"]

WindowMakeMove ==
    /\ Len(moveStack) < MaxWindowPly
    /\ \E move \in legalMoves(position) :
          /\ move.originSquare \in WindowSquares
          /\ move.targetSquare \in WindowSquares
          /\ position' = makeMove(position, move)
          /\ moveStack' = Append(moveStack, move)
          /\ shadow' = Append(shadow, position)
          /\ last' = [name |-> "makeMove", move |-> move]
    /\ UNCHANGED <<zobristUnset, input>>

\* isRepetition(), with the snapshot indices it reads
IsRepetitionReads ==
    /\ last' = [name |-> "isRepetition", ret |-> isRepetition(position),
                read |-> repetitionReads(position)]
    /\ UNCHANGED <<position, zobristUnset, moveStack, shadow, input>>

NextWindow ==
    \/ WindowMakeMove
    \/ IsRepetitionReads

SpecWindow == InitWindow /\ [][NextWindow]_vars

\* a pending move that cannot be taken back by later moves: a pawn move or a capture
irreversible(move) ==
    getType(move.originPiece) = PAWN \/ move.targetPiece # NOPIECE

\* C20: isRepetition reads only the snapshots of plies depth-2, depth-4, ...
\* that are >= max(0, depth - halfmoveClock): positions with the same side to
\* move, at or after the last pawn move or capture, and never an index below
\* 0 even when the halfmove clock exceeds the depth; it returns false right
\* after a pawn move or a capture and whenever fewer than two moves are on
\* the history stack.
C20_RepetitionWindow ==
    last.name = "isRepetition" =>
        LET depth == statesSize(position)
        IN /\ \A i \in last.read :
                 /\ i >= 0
                 /\ i < depth
                 /\ (depth - i) % 2 = 0
                 /\ i >= depth - position.halfmoveClock
                 /\ shadow[i + 1].activeColor = position.activeColor
                 /\ \A k \in (i + 1)..depth : ~irreversible(moveStack[k])
           /\ last.ret = TRUE =>
                 \E i \in last.read : shadow[i + 1].zobristKey = position.zobristKey
           /\ (depth >= 1 /\ irreversible(moveStack[depth])) => last.ret = FALSE
           /\ depth < 2 => last.ret = FALSE

\* after four plies the start position is back: isRepetition has read the
\* snapshots 2 and 0 while the halfmove clock is above the history depth
C20_Witness ==
    /\ last.name = "isRepetition"
    /\ statesSize(position) = 4
    /\ position.halfmoveClock > statesSize(position)
    /\ last.read = {0, 2}
    /\ last.ret = TRUE

(***************************************************************************)
(* Castling descriptors with any target square: a caller hands makeMove    *)
(* and undoMove moves of type CASTLING the move generator would not build. *)
(* The exception is not caught: nothing is called after it.                *)
(***************************************************************************)
MaxThrowPly == 1

\* the target squares tried besides g1, c1, g8, c8: the rest of the two back
\* ranks, and e2
ThrowTargets ==
    {sq \in Squares : getRank(sq) \in {0, 7}} \cup {SquareValueOf(4, 1)}

\* descriptors of type CASTLING for the king of a color, to an empty square that
\* is none of the four of the switch
badCastlingMoves(p, color) ==
    {MoveValueOf(CASTLING, origin, target, PieceValueOf(color, KING), NOPIECE, NOPIECETYPE) :
        origin \in p.pieces[color][KING],
        target \in {t \in ThrowTargets \ CastlingTargets : boardGet(p, t) = NOPIECE}}

InitThrow ==
    /\ zobristUnset \in UnsetValues
    /\ input \in GameFens
    /\ position = toPosition(input).position
    /\ moveStack = <<>>
    /\ shadow = <<>>
    /\ last = [name |-> "toPosition", thrown |-> FALSE]

ThrowMakeMove ==
    /\ ~last.thrown
    /\ Len(moveStack) < MaxThrowPly
    /\ \E move \in legalMoves(position) \cup badCastlingMoves(position, position.activeColor) :
          /\ position' = makeMove(position, move)
          /\ moveStack' = Append(moveStack, move)
          /\ shadow' = Append(shadow, position)
          /\ last' = [name |-> "makeMove", move |-> move, thrown |-> moveThrows(move),
                      before |-> position]
    /\ UNCHANGED <<zobristUnset, input>>

\* undoMove of the move made last, or of a castling descriptor in its place
ThrowUndoMove ==
    /\ ~last.thrown
    /\ moveStack # <<>>
    /\ \E move \in {moveStack[Len(moveStack)]}
                     \cup badCastlingMoves(position, opposite(position.activeColor)) :
          /\ position' = undoMove(position, move)
          /\ last' = [name |-> "undoMove", move |-> move, thrown |-> moveThrows(move),
                      before |-> position]
    /\ moveStack' = SubSeq(moveStack, 1, Len(moveStack) - 1)
    /\ shadow' = SubSeq(shadow, 1, Len(shadow) - 1)
    /\ UNCHANGED <<zobristUnset, input>>

NextThrow ==
    \/ ThrowMakeMove
    \/ ThrowUndoMove

SpecThrow == InitThrow /\ [][NextThrow]_vars

\* the squares that hold a rook, with the rook they hold
rooksOf(p) ==
    {<<sq, boardGet(p, sq)>> : sq \in {o \in Squares : getType(boardGet(p, o)) = ROOK}}

\* C21: a move of type CASTLING whose target square is none of g1, c1, g8, c8
\* makes makeMove, and likewise undoMove, throw, and no rook is relocated: the
\* rooks stand after the call where they stood before it, in the board array
\* and in the occupancy sets.
C21_CastlingThrows ==
    (/\ last.name \in {"makeMove", "undoMove"}
     /\ last.move.type = CASTLING
     /\ last.move.targetSquare \notin {g1, c1, g8, c8}) =>
        /\ last.thrown
        /\ rooksOf(position) = rooksOf(last.before)
        /\ \A c \in Colors : position.pieces[c][ROOK] = last.before.pieces[c][ROOK]

\* makeMove threw on a castling descriptor to f1 with a white rook on h1
C21_Witness ==
    /\ last.name = "makeMove"
    /\ last.thrown
    /\ last.move.targetSquare = f1
    /\ boardGet(position, h1) = PieceValueOf(WHITE, ROOK)

(***************************************************************************)
(* Copies: a second Position, the receiver, is copy-constructed from the   *)
(* Position of the game, the source, and later assigned from it again;     *)
(* moves are made on either.  The receiver is shadow[1]; moveStack holds   *)
(* the moves made on the receiver since it was last copied to.             *)
(***************************************************************************)
MaxCopyPly == 2

\* a mutation of copyAssign: statesSize is not reset
copyAssignKeepsDepth(receiver, source) ==
    [source EXCEPT !.states = receiver.states]

\* Position::Position(const Position&): Position(), then the fields one by one,
\* then statesSize = 0
copyConstruct(source) ==
    [NewPosition EXCEPT !.board = source.board,
                        !.pieces = source.pieces,
                        !.material = source.material,
                        !.castlingRights = source.castlingRights,
                        !.enPassantSquare = source.enPassantSquare,
                        !.activeColor = source.activeColor,
                        !.halfmoveClock = source.halfmoveClock,
                        !.zobristKey = source.zobristKey,
                        !.halfmoveNumber = source.halfmoveNumber,
                        !.states = <<>>]

\* Position::operator=: the same assignments on an existing receiver.  The
\* entries of its states array stay behind statesSize = 0, where makeMove
\* overwrites them before isRepetition can read them.
copyAssign(receiver, source) ==
    [receiver EXCEPT !.board = source.board,
                     !.pieces = source.pieces,
                     !.material = source.material,
                     !.castlingRights = source.castlingRights,
                     !.enPassantSquare = source.enPassantSquare,
                     !.activeColor = source.activeColor,
                     !.halfmoveClock = source.halfmoveClock,
                     !.zobristKey = source.zobristKey,
                     !.halfmoveNumber = source.halfmoveNumber,
                     !.states = <<>>]

\* Position::operator==
equals(p, q) ==
    /\ p.board = q.board
    /\ p.pieces = q.pieces
    /\ p.material = q.material
    /\ p.castlingRights = q.castlingRights
    /\ p.enPassantSquare = q.enPassantSquare
    /\ p.activeColor = q.activeColor
    /\ p.halfmoveClock = q.halfmoveClock
    /\ p.zobristKey = q.zobristKey
    /\ p.halfmoveNumber = q.halfmoveNumber

InitCopy ==
    /\ zobristUnset \in UnsetValues
    /\ input \in RepFens
    /\ position = toPosition(input).position
    /\ moveStack = <<>>
    /\ shadow = <<>>
    /\ last = [name |-> "toPosition"]

\* makeMove on the source
SourceMakeMove ==
    /\ statesSize(position) < MaxCopyPly
    /\ \E move \in legalMoves(position) :
          /\ move.originSquare \in RepSquares
          /\ move.targetSquare \in RepSquares
          /\ position' = makeMove(position, move)
          /\ last' = [name |-> "makeMove", on |-> "source", other |-> shadow]
    /\ UNCHANGED <<zobristUnset, moveStack, shadow, input>>

\* Position receiver(source)
CopyConstruct ==
    /\ shadow = <<>>
    /\ shadow' = <<copyConstruct(position)>>
    /\ moveStack' = <<>>
    /\ last' = [name |-> "copy", depthBefore |-> 0]
    /\ UNCHANGED <<position, zobristUnset, input>>

\* receiver = source
CopyAssign ==
    /\ shadow # <<>>
    /\ last.name # "assign"
    /\ shadow' = <<copyAssign(shadow[1], position)>>
    /\ moveStack' = <<>>
    /\ last' = [name |-> "assign", depthBefore |-> statesSize(shadow[1])]
    /\ UNCHANGED <<position, zobristUnset, input>>

\* makeMove on the receiver
ReceiverMakeMove ==
    /\ shadow # <<>>
    /\ statesSize(shadow[1]) < MaxCopyPly
    /\ \E move \in legalMoves(shadow[1]) :
          /\ move.originSquare \in RepSquares
          /\ move.targetSquare \in RepSquares
          /\ shadow' = <<makeMove(shadow[1], move)>>
          /\ moveStack' = Append(moveStack, move)
          /\ last' = [name |-> "makeMove", on |-> "receiver", other |-> <<position>>]
    /\ UNCHANGED <<position, zobristUnset, input>>

\* isRepetition on the receiver
ReceiverIsRepetition ==
    /\ shadow # <<>>
    /\ last.name # "isRepetition"
    /\ last' = [name |-> "isRepetition", ret |-> isRepetition(shadow[1])]
    /\ UNCHANGED <<position, zobristUnset, moveStack, shadow, input>>

NextCopy ==
    \/ SourceMakeMove
    \/ CopyConstruct
    \/ CopyAssign
    \/ ReceiverMakeMove
    \/ ReceiverIsRepetition

SpecCopy == InitCopy /\ [][NextCopy]_vars

\* C22: right after copy construction and after copy assignment the receiver
\* has the source's board, occupancy sets, material, castling rights,
\* en-passant square, active color, halfmove clock, hash and halfmove number,
\* so that receiver == source, and a history of depth 0 whatever the depths of
\* the source and of the receiver were; isRepetition on the receiver is false
\* while fewer than two moves have been made on it since; a move made on one
\* of the two Positions does not change the other.
C22_CopySemantics ==
    /\ last.name \in {"copy", "assign"} =>
          /\ shadow[1].board = position.board
          /\ shadow[1].pieces = position.pieces
          /\ shadow[1].material = position.material
          /\ shadow[1].castlingRights = position.castlingRights
          /\ shadow[1].enPassantSquare = position.enPassantSquare
          /\ shadow[1].activeColor = position.activeColor
          /\ shadow[1].halfmoveClock = position.halfmoveClock
          /\ shadow[1].zobristKey = position.zobristKey
          /\ shadow[1].halfmoveNumber = position.halfmoveNumber
          /\ equals(shadow[1], position)
          /\ statesSize(shadow[1]) = 0
    /\ (last.name = "isRepetition" /\ Len(moveStack) < 2) => last.ret = FALSE
    /\ (last.name = "makeMove" /\ last.on = "source") => shadow = last.other
    /\ (last.name = "makeMove" /\ last.on = "receiver") => <<position>> = last.other

\* the receiver had made moves of its own when the source, which had made
\* moves too, was assigned to it
C22_Witness ==
    /\ last.name = "assign"
    /\ last.depthBefore > 0
    /\ statesSize(position) > 0
    /\ position.halfmoveClock > 0

(***************************************************************************)
(* Soundness of isRepetition in the shuffling games of SpecRep.            *)
(***************************************************************************)
\* C23: whenever isRepetition returns true, an earlier position of the history
\* has the same side to move, board, castling rights and en-passant square as
\* the current one; a king or rook that moved away and back, losing castling
\* rights, does not make the position a repetition of the one that had them.
C23_Original ==
    (last.name = "isRepetition" /\ last.ret = TRUE) =>
        \E k \in 1..Len(shadow) : samePosition(shadow[k], position)

(***************************************************************************)
(* The hash across makeMove: a caller makes legal moves, and castling      *)
(* moves of a king and a rook that stand on their squares with the right   *)
(* already gone, which makeMove carries out like any other.                *)
(***************************************************************************)
MaxHashPly == 2

\* r3k2r/8/8/8/8/8/8/R3K2R w - - 0 1
FenNoRights ==
    <<"r", "3", "k", "2", "r", "/", "8", "/", "8", "/", "8", "/", "8", "/", "8", "/", "8",
      "/", "R", "3", "K", "2", "R", " ", "w", " ", "-", " ", "-", " ", "0", " ", "1">>

HashFens == GameFens \cup {FenNoRights}

\* castling descriptors of the side to move whose right is not held: the king
\* and the rook stand on their squares and the squares between them are empty
castlingWithoutRights(p) ==
    LET color == p.activeColor
        king == PieceValueOf(color, KING)
        rook == PieceValueOf(color, ROOK)
        origin == IF color = WHITE THEN e1 ELSE e8
        try(flag, target) ==
            LET rookFrom == rookOriginSquare(target)
                low == IF rookFrom < origin THEN rookFrom ELSE origin
                high == IF rookFrom < origin THEN origin ELSE rookFrom
            IN IF /\ flag \notin p.castlingRights
                  /\ boardGet(p, origin) = king
                  /\ boardGet(p, rookFrom) = rook
                  /\ \A sq \in (low + 1)..(high - 1) : boardGet(p, sq) = NOPIECE
               THEN {MoveValueOf(CASTLING, origin, target, king, NOPIECE, NOPIECETYPE)}
               ELSE {}
    IN IF color = WHITE
       THEN try(WHITE_KINGSIDE, g1) \cup try(WHITE_QUEENSIDE, c1)
       ELSE try(BLACK_KINGSIDE, g8) \cup try(BLACK_QUEENSIDE, c8)

InitHash ==
    /\ zobristUnset \in UnsetValues
    /\ input \in HashFens
    /\ position = toPosition(input).position
    /\ moveStack = <<>>
    /\ shadow = <<>>
    /\ last = [name |-> "toPosition"]

HashMakeMove ==
    /\ Len(moveStack) < MaxHashPly
    /\ \E move \in legalMoves(position) \cup castlingWithoutRights(position) :
          /\ position' = makeMove(position, move)
          /\ moveStack' = Append(moveStack, move)
          /\ shadow' = Append(shadow, position)
          /\ last' = [name |-> "makeMove", move |-> move]
    /\ UNCHANGED <<zobristUnset, input>>

NextHash == HashMakeMove

SpecHash == InitHash /\ [][NextHash]_vars

\* the table entries of the (piece, square) pairs a move removed and placed:
\* every square whose content changed gives the entry of the piece it held and
\* the entry of the piece it holds
boardDelta(before, after) ==
    UNION {(IF boardGet(before, sq) # NOPIECE
            THEN zobristBoard(boardGet(before, sq), sq) ELSE {})
           \cup (IF boardGet(after, sq) # NOPIECE
                 THEN zobristBoard(boardGet(after, sq), sq) ELSE {}) :
              sq \in {o \in Squares : boardGet(before, o) # boardGet(after, o)}}

\* the entries of the old and of the new en-passant square
enPassantDelta(before, after) ==
    XOR(IF before.enPassantSquare # NOSQUARE
        THEN zobristEnPassantSquare(before.enPassantSquare) ELSE {},
        IF after.enPassantSquare # NOSQUARE
        THEN zobristEnPassantSquare(after.enPassantSquare) ELSE {})

\* C24: a makeMove that leaves the castling rights as they were, made on a
\* Position whose hash equals the from-scratch hash, gives a Position whose
\* hash equals the from-scratch hash: the hash has changed by exactly the
\* entries of the removed and placed (piece, square) pairs, of the old and the
\* new en-passant square, and the one side-to-move entry.
C24_HashDelta ==
    (/\ last.name = "makeMove"
     /\ shadow[Len(shadow)].castlingRights = position.castlingRights
     /\ shadow[Len(shadow)].zobristKey = scratchKey(shadow[Len(shadow)])) =>
        /\ position.zobristKey = scratchKey(position)
        /\ XOR(shadow[Len(shadow)].zobristKey, position.zobristKey)
             = XOR(XOR(boardDelta(shadow[Len(shadow)], position),
                       enPassantDelta(shadow[Len(shadow)], position)),
                   zobristActiveColor)

\* a king castled with its right already gone, on a Position whose hash was
\* the from-scratch hash
C24_Witness ==
    /\ last.name = "makeMove"
    /\ last.move.type = CASTLING
    /\ shadow[Len(shadow)].castlingRights = position.castlingRights
    /\ shadow[Len(shadow)].zobristKey = scratchKey(shadow[Len(shadow)])
====
